---- MODULE Spec2Model ----
(***************************************************************************)
(* The device session and enrollment orchestrator of cosmic-fprint:        *)
(* AppModel (src/src/app/mod.rs) handling its messages, the asynchronous   *)
(* tasks it starts against the fprintd device object                       *)
(* (src/src/app/fprint.rs), and the device as the environment.             *)
(*                                                                         *)
(* Granularity.  Every `.await` of a task is a step of its own: a remote   *)
(* call (request, effect on the device and reply together) or a send into  *)
(* the message channel.  The update function handles one message per step. *)
(* The enrollment task is a subscription: the runtime drops its future as  *)
(* soon as subscription() no longer returns it, that is in the step of the *)
(* update that clears enrolling_finger; tasks made by Task::perform always *)
(* run to their end.                                                       *)
(***************************************************************************)
EXTENDS Integers, Sequences, FiniteSets, TLC

\* ------------------------------------------------------------- bounds
\* Enrollment sessions (accepted register requests) in one run.
MaxSessions == 1
\* Status signals the device emits during one run.
MaxSignals == 2
\* Cancel requests in one run.
MaxCancels == 1
\* Delete requests in one run.
MaxDeletes == 1
\* Clear-all batches in one run.
MaxClears == 1
\* A user is selected only while fewer than this many listings and messages
\* are waiting.
MaxInbox == 2
\* Status signals of one enrollment in the specification of the status stream.
MaxStream == 3

\* ------------------------------------------------------------- values
\* Option of a string (a finger id, a page name): the string, or None.
None == "none"
\* Option of any other type.
Nothing == << >>
Some(v) == << v >>
Get(o) == o[1]

\* zbus::Error values the remote calls can return.  A method error carries
\* the D-Bus error name; any other variant has only its text.
ZErr(method, name) == [method |-> method, name |-> name]
E_AlreadyInUse == ZErr(TRUE, "net.reactivated.Fprint.Error.AlreadyInUse")
E_ClaimDevice == ZErr(TRUE, "net.reactivated.Fprint.Error.ClaimDevice")
E_Internal == ZErr(TRUE, "net.reactivated.Fprint.Error.Internal")
E_PrintsNotDeleted == ZErr(TRUE, "net.reactivated.Fprint.Error.PrintsNotDeleted")
E_NoEnrolledPrints == ZErr(TRUE, "net.reactivated.Fprint.Error.NoEnrolledPrints")
E_NoSuchDevice == ZErr(TRUE, "net.reactivated.Fprint.Error.NoSuchDevice")
E_Io == ZErr(FALSE, "input/output error")

\* Result<T, zbus::Error>
Ok == [ok |-> TRUE]
OkVal(v) == [ok |-> TRUE, val |-> v]
Err(e) == [ok |-> FALSE, err |-> e]
IsOk(r) == r.ok
IsErr(r) == ~r.ok

\* A faulty Result::and in which the later error wins: the fault the
\* property of the delete's returned error must detect.
ResultAndLast(res, rel_res) == IF IsErr(rel_res) THEN rel_res ELSE res

\* A faulty Result::and that forgets the release's answer.
ResultAndFirst(res, rel_res) == res

\* Result::and
ResultAnd(res, rel_res) == IF IsOk(res) THEN rel_res ELSE res

\* AppError: a tag, and for Unknown and ConnectDbus the detail text as a
\* sequence of string pieces.
AppErr(tag, msg) == [tag |-> tag, msg |-> msg]

FprintErrorPrefix == "net.reactivated.Fprint.Error."

KnownErrors ==
    { "PermissionDenied", "AlreadyInUse", "Internal", "NoEnrolledPrints",
      "ClaimDevice", "PrintsNotDeleted", "Timeout", "DeviceNotFound" }

\* The name of a method error inside the fprintd error namespace, or None.
ShortName(e) ==
    IF ~e.method THEN None
    ELSE IF \E k \in KnownErrors : e.name = FprintErrorPrefix \o k
         THEN CHOOSE k \in KnownErrors : e.name = FprintErrorPrefix \o k
         ELSE None

\* A faulty conversion that matches the text of any error against the
\* recognized names, a method error or not.
FromZbusByName(e) ==
    IF \E k \in KnownErrors : e.name = FprintErrorPrefix \o k
    THEN AppErr(CHOOSE k \in KnownErrors : e.name = FprintErrorPrefix \o k, <<>>)
    ELSE AppErr("Unknown", <<e.name>>)

\* impl From<zbus::Error> for AppError
FromZbus(e) ==
    IF ShortName(e) # None
    THEN AppErr(ShortName(e), <<>>)
    ELSE AppErr("Unknown", <<e.name>>)

\* A faulty with_context that prefixes every error carrying a text, the
\* connection error included.
with_context_detail(err, context) ==
    IF err.tag \in { "Unknown", "ConnectDbus" }
    THEN AppErr(err.tag, <<context, ": ">> \o err.msg)
    ELSE err

\* AppError::with_context
with_context(err, context) ==
    IF err.tag = "Unknown"
    THEN AppErr("Unknown", <<context, ": ">> \o err.msg)
    ELSE err

\* fl!: the localized text of a message id, kept apart from raw text.
fl(id) == << "fl", id >>

\* AppError::localized_message: the text shown in the status line, as pieces.
localized_message(err) ==
    CASE err.tag = "PermissionDenied" -> fl("error-permission-denied")
      [] err.tag = "AlreadyInUse" -> fl("error-already-in-use")
      [] err.tag = "Internal" -> fl("error-internal")
      [] err.tag = "NoEnrolledPrints" -> fl("error-no-enrolled-prints")
      [] err.tag = "ClaimDevice" -> fl("error-claim-device")
      [] err.tag = "PrintsNotDeleted" -> fl("error-prints-not-deleted")
      [] err.tag = "Timeout" -> fl("error-timeout")
      [] err.tag = "DeviceNotFound" -> fl("error-device-not-found")
      [] err.tag = "ConnectDbus" -> fl("error-connect-dbus") \o err.msg
      [] err.tag = "Unknown" -> err.msg

\* Page::all
PageAll ==
    << "RightThumb", "RightIndex", "RightMiddle", "RightRing", "RightPinky",
       "LeftThumb", "LeftIndex", "LeftMiddle", "LeftRing", "LeftPinky",
       "DeleteAllUsersPrints" >>

\* A faulty as_finger_id in which two fingers share an identifier and the
\* page of all fingers has one.
as_finger_id_shared(page) ==
    CASE page = "RightThumb" -> "right-thumb"
      [] page = "RightIndex" -> "right-index-finger"
      [] page = "RightMiddle" -> "right-middle-finger"
      [] page = "RightRing" -> "right-middle-finger"
      [] page = "RightPinky" -> "right-little-finger"
      [] page = "LeftThumb" -> "left-thumb"
      [] page = "LeftIndex" -> "left-index-finger"
      [] page = "LeftMiddle" -> "left-middle-finger"
      [] page = "LeftRing" -> "left-ring-finger"
      [] page = "LeftPinky" -> "left-little-finger"
      [] OTHER -> "any"

\* Page::as_finger_id
as_finger_id(page) ==
    CASE page = "RightThumb" -> "right-thumb"
      [] page = "RightIndex" -> "right-index-finger"
      [] page = "RightMiddle" -> "right-middle-finger"
      [] page = "RightRing" -> "right-ring-finger"
      [] page = "RightPinky" -> "right-little-finger"
      [] page = "LeftThumb" -> "left-thumb"
      [] page = "LeftIndex" -> "left-index-finger"
      [] page = "LeftMiddle" -> "left-middle-finger"
      [] page = "LeftRing" -> "left-ring-finger"
      [] page = "LeftPinky" -> "left-little-finger"
      [] OTHER -> None

\* UserOption
UserOption(username, realname) == [username |-> username, realname |-> realname]

\* ------------------------------------------------------- input sets
\* The pages the user navigates to in the model.
NavChoices == { "RightIndex", "DeleteAllUsersPrints" }
\* What the user directory resolution can return (UsersFound).
UserLists ==
    { << UserOption("alice", "Alice A.") >>,
      << UserOption("alice", "Alice A."), UserOption("bob", "") >> }
\* The invoking OS user (User::from_uid(Uid::current())), when the lookup works.
OsUser == UserOption("alice", "")

\* The most accounts list_cached_users returns.
MaxPaths == 2

\* The steps of the fetch of one account: the proxy builder, its build and
\* the two properties.
FetchSteps == { "builder", "build", "user_name", "real_name" }

\* One account of the accounts service: its user, and the step of its fetch
\* that fails, or None when every step works.
AccountPaths ==
    { [user |-> u, fails |-> f] :
        u \in { UserOption("alice", "Alice A."), UserOption("bob", "") },
        f \in FetchSteps \cup { None } }

\* What the user directory answers to one run of the fetch task: whether
\* AccountsProxy::new and list_cached_users work, the accounts listed, and
\* the answer of User::from_uid(Uid::current()).
Dir(accounts, paths, os) == [accounts |-> accounts, paths |-> paths, os |-> os]

Directories ==
    { Dir("ok", ps, os) : ps \in UNION { [1..n -> AccountPaths] : n \in 0..MaxPaths },
                          os \in { "some", "none", "error" } }
      \cup { Dir(a, <<>>, os) : a \in { "no-proxy", "list-error" },
                                os \in { "some", "none", "error" } }

\* The directories in which every listed account can be fetched, and the
\* missing accounts service with and without the invoking user.
PlainDirectories ==
    { Dir("ok", [i \in 1..Len(us) |-> [user |-> us[i], fails |-> None]], "some")
        : us \in UserLists }
      \cup { Dir("no-proxy", <<>>, os) : os \in { "some", "none" } }

NoDir == Dir("no-proxy", <<>>, "none")

\* USER_FETCH_CONCURRENCY
USER_FETCH_CONCURRENCY == 10

\* The most accounts of a long listing.
MaxLongList == 12

\* The directories that list many accounts, each of which can be fetched.
LongDirectories ==
    { Dir("ok", [i \in 1..n |-> [user |-> UserOption("bob", ""), fails |-> None]],
          "some") : n \in 0..MaxLongList }

\* The fetch task between its remote calls (stream::iter(paths).map(..)
\* .buffered(n)): `started` accounts have been handed to the buffer, the
\* fetches in `back` have returned, the first `yielded` results have left
\* the buffer in the order of the paths.
NoRun == [on |-> FALSE, started |-> 0, back |-> {}, yielded |-> 0]

\* The fetch of one account (the closure of mod.rs:508-540): the user, or an
\* error.
FetchAccount(p) == IF p.fails = None THEN OkVal(p.user) ELSE Err(p.fails)

\* .filter_map(|res| async { res.ok() }).collect(): the values of the
\* fetches that worked, in the order of the paths.
RECURSIVE CollectOk(_)
CollectOk(results) ==
    IF results = <<>> THEN <<>>
    ELSE IF IsOk(Head(results))
         THEN << Head(results).val >> \o CollectOk(Tail(results))
         ELSE CollectOk(Tail(results))

\* A faulty fetch task that adds the invoking user to every list.
fetch_users_always_fallback(dir) ==
    LET fetched == IF dir.accounts = "ok"
                   THEN CollectOk([i \in 1..Len(dir.paths) |->
                                      FetchAccount(dir.paths[i])])
                   ELSE <<>>
    IN  IF dir.os = "some" THEN Append(fetched, OsUser) ELSE fetched

\* A faulty fetch task in which the first account that cannot be fetched
\* ends the listing with nothing.
fetch_users_aborting(dir) ==
    LET results == [i \in 1..Len(dir.paths) |-> FetchAccount(dir.paths[i])]
        fetched == IF dir.accounts = "ok"
                      /\ \A i \in 1..Len(results) : IsOk(results[i])
                   THEN CollectOk(results)
                   ELSE <<>>
    IN  IF fetched = <<>>
        THEN IF dir.os = "some" THEN << OsUser >> ELSE <<>>
        ELSE fetched

\* The future of fetch_users_task: the accounts that could be fetched, or
\* the invoking user when there is none and its lookup works.
fetch_users(dir) ==
    LET fetched == IF dir.accounts = "ok"
                   THEN CollectOk([i \in 1..Len(dir.paths) |->
                                      FetchAccount(dir.paths[i])])
                   ELSE <<>>
    IN  IF fetched = <<>>
        THEN IF dir.os = "some" THEN << OsUser >> ELSE <<>>
        ELSE fetched
\* What list_enrolled_fingers can return.
ListChoices == { <<>>, << "right-index-finger" >> }
\* The same, with a user who has two prints, for the batch over all users.
BatchListChoices == ListChoices \cup { << "right-index-finger", "left-thumb" >> }
\* Values of the num-enroll-stages property.
StageChoices == { 0, 3 }
\* The same, with a negative value (the property is an i32).
StreamStageChoices == { -1, 0, 2 }
\* Status signals of the device: (result, done).
SignalChoices ==
    { << "enroll-stage-passed", FALSE >>, << "enroll-completed", TRUE >>,
      << "enroll-failed", TRUE >> }
\* The same, with a result code that is not a passed stage and one that
\* on_enroll_status has no text for.
StreamSignalChoices ==
    SignalChoices \cup { << "enroll-retry-scan", FALSE >>,
                         << "enroll-swipe-too-fast", FALSE >> }

\* ------------------------------------------------------------- state
VARIABLES
    \* AppModel (src/src/app/mod.rs:47-81)
    status,               \* status text, as pieces
    device_path,          \* Option: TRUE when present (device_proxy goes with it)
    connection,           \* Option: TRUE when present
    busy,
    enrolling_finger,     \* Option<finger id>
    enroll_progress,
    enroll_total_stages,  \* Option<u32>
    users,
    selected_user,        \* Option<UserOption>
    enrolled_fingers,
    confirm_clear,
    active,               \* the active nav page, None before any selection
    \* the runtime
    inbox,                \* messages produced and not yet handled by update
    boot,                 \* the startup tasks still running, and what the
                          \* user directory answered to the fetch task
    listing,              \* list_fingers_task instances in flight (their usernames)
    enr,                  \* the enrollment subscription's task, per session
    cnl,                  \* the tasks made by on_enroll_stop, per cancel request
    del,                  \* the tasks made by on_delete, per delete request
    clr,                  \* the tasks made by on_clear_device, per batch
    \* the device (fprintd), as seen from this process's connection
    claimed,              \* the device is claimed by this connection
    dev_enrolling,        \* an enrollment is running on the device
    stream,               \* the enrollment task's status stream
    \* bookkeeping for the properties
    nsignals,             \* status signals the device has emitted so far
    dlv,                  \* per session: its enrollment events handled by update
    calc,                 \* the error conversions: their inputs and their results
    reselected            \* a page or user selection has been handled since
                          \* the confirmation of the clear was asked

appVars ==
    << status, device_path, connection, busy, enrolling_finger, enroll_progress,
       enroll_total_stages, users, selected_user, enrolled_fingers,
       confirm_clear, active >>
taskVars == << inbox, boot, listing, enr, cnl, del, clr >>
devVars == << claimed, dev_enrolling, stream >>
ghostVars == << nsignals, dlv, calc, reselected >>
vars == << appVars, taskVars, devVars, ghostVars >>

\* ------------------------------------------------- the error conversions
\* The longest chain of with_context calls applied to one error.
MaxNotes == 2

\* The error texts the bus can deliver: the eight recognized names, a name of
\* the fprintd namespace that is not recognized, a name of another namespace,
\* a recognized short name without the namespace, and a plain text.
ZbusNames ==
    { FprintErrorPrefix \o k : k \in KnownErrors }
        \cup { "net.reactivated.Fprint.Error.UnknownOne",
               "org.freedesktop.DBus.Error.AccessDenied",
               "PermissionDenied", "test error" }

\* zbus::Error: a method error with its name, or any other variant with its
\* text.
ZbusErrors == { ZErr(m, n) : m \in BOOLEAN, n \in ZbusNames }

ErrorTexts == { "Some error", "Connection error" }

\* Every value of AppError over the texts above.
AppErrors ==
    { AppErr(k, <<>>) : k \in KnownErrors }
        \cup { AppErr(tag, <<m>>) : tag \in { "ConnectDbus", "Unknown" },
                                    m \in ErrorTexts }

Notes == { "Context", "Failed to list fingers" }

NoteChains == UNION { [1..n -> Notes] : n \in 0..MaxNotes }

\* One conversion: the bus error given to the mapper and its result, the
\* error given to with_context, the notes still to apply, the notes applied
\* and the error they have made of it.
Calc(zerr, err, todo) ==
    [zerr |-> zerr, mapped |-> Nothing, err |-> err, todo |-> todo,
     applied |-> <<>>, out |-> err]

NoCalc == Calc(E_Io, AppErr("Internal", <<>>), <<>>)

\* AppError::from(err)
MapError ==
    /\ calc.mapped = Nothing
    /\ calc' = [calc EXCEPT !.mapped = Some(FromZbus(calc.zerr))]
    /\ UNCHANGED << appVars, taskVars, devVars, nsignals, dlv,
                    reselected >>

\* AppError::from(e).with_context(..): the mapper's result is the error the
\* notes are applied to.
ChainMapped ==
    /\ calc.mapped # Nothing
    /\ calc.applied = <<>>
    /\ calc.err # Get(calc.mapped)
    /\ calc' = [calc EXCEPT !.err = Get(calc.mapped), !.out = Get(calc.mapped)]
    /\ UNCHANGED << appVars, taskVars, devVars, nsignals, dlv,
                    reselected >>

\* err.with_context(note), for the next note of the chain
AddContext ==
    /\ calc.todo # <<>>
    /\ calc' = [calc EXCEPT !.out = with_context(@, Head(calc.todo)),
                            !.todo = Tail(@),
                            !.applied = Append(@, Head(calc.todo))]
    /\ UNCHANGED << appVars, taskVars, devVars, nsignals, dlv,
                    reselected >>

Sessions == 1..MaxSessions

\* Message (src/src/app/message.rs), with the task it comes from: src names
\* the kind of task and sess its session (enroll, cancel) or its request
\* number (delete, clear).
Msg(type, a, b, src, id) ==
    [type |-> type, a |-> a, b |-> b, src |-> src, sess |-> id]

\* ------------------------------------------------------------ device
\* The replies the device can give to each call in its current state.
ClaimReplies ==
    IF claimed THEN { Err(E_AlreadyInUse) } ELSE { Ok, Err(E_AlreadyInUse) }
ReleaseReplies ==
    IF claimed THEN { Ok, Err(E_Internal) } ELSE { Err(E_ClaimDevice) }
DeleteReplies ==
    IF claimed THEN { Ok, Err(E_PrintsNotDeleted) } ELSE { Err(E_ClaimDevice) }
EnrollStartReplies ==
    IF claimed THEN { Ok, Err(E_Internal) } ELSE { Err(E_ClaimDevice) }
EnrollStopReplies ==
    IF claimed /\ dev_enrolling THEN { Ok, Err(E_Io) } ELSE { Err(E_Internal) }
StagesReplies == { OkVal(n) : n \in StageChoices } \cup { Err(E_Io) }
StreamStagesReplies == { OkVal(n) : n \in StreamStageChoices } \cup { Err(E_Io) }
SubscribeReplies == { Ok, Err(E_Io) }
ListReplies == { OkVal(f) : f \in ListChoices } \cup { Err(E_NoEnrolledPrints) }
BatchListReplies ==
    { OkVal(f) : f \in BatchListChoices } \cup { Err(E_NoEnrolledPrints) }
FindDeviceReplies == { Ok, Err(E_NoSuchDevice), Err(E_Internal), Err(E_Io) }

\* The device after a claim call answered r.
DevClaim(r) ==
    /\ claimed' = (claimed \/ IsOk(r))
    /\ UNCHANGED << dev_enrolling, stream >>

\* The device after a release call: a release that reaches a claimed device
\* ends the claim and any enrollment, whatever the reply says.
DevRelease ==
    /\ claimed' = FALSE
    /\ dev_enrolling' = FALSE
    /\ UNCHANGED stream

DevEnrollStart(r) ==
    /\ dev_enrolling' = (dev_enrolling \/ IsOk(r))
    /\ UNCHANGED << claimed, stream >>

DevEnrollStop(r) ==
    /\ dev_enrolling' = (dev_enrolling /\ IsErr(r))
    /\ UNCHANGED << claimed, stream >>

\* ------------------------------------------------------------ tasks
NoEnroll ==
    [pc |-> "none", finger |-> None, user |-> None, total |-> Nothing,
     ret |-> Ok, cur |-> << None, FALSE >>, calls |-> <<>>, sent |-> <<>>,
     got |-> <<>>]
NoCancel == [pc |-> "none", sess |-> 0, live |-> FALSE, calls |-> <<>>]
NoDelete ==
    [pc |-> "none", kind |-> None, finger |-> None, user |-> None,
     res |-> Ok, ret |-> Ok, calls |-> <<>>]
NoClear ==
    [pc |-> "none", todo |-> <<>>, user |-> None, fingers |-> <<>>,
     last_error |-> Ok, calls |-> <<>>]

\* The status stream of receive_enroll_status: not subscribed.
NoStream == [open |-> FALSE, q |-> <<>>, ended |-> FALSE]

\* A call and its reply, as kept in a task's log.
Call(op, arg, reply) == [op |-> op, arg |-> arg, reply |-> reply]

\* The session whose subscription task is alive, 0 when there is none.
Alive(e) ==
    IF \E s \in Sessions : e[s].pc \notin { "none", "dropped" }
    THEN CHOOSE s \in Sessions : e[s].pc \notin { "none", "dropped" }
    ELSE 0

\* How many entries of a task table are in use.
Started(t) == Cardinality({ k \in DOMAIN t : t[k].pc # "none" })

Init ==
    /\ status = fl("status-connecting")
    /\ device_path = FALSE
    /\ connection = FALSE
    /\ busy = TRUE
    /\ enrolling_finger = None
    /\ enroll_progress = 0
    /\ enroll_total_stages = Nothing
    /\ users = <<>>
    /\ selected_user \in { Nothing, Some(OsUser) }
    /\ enrolled_fingers = <<>>
    /\ confirm_clear = FALSE
    /\ active = None
    /\ inbox = <<>>
    /\ boot = [connect |-> TRUE, find |-> FALSE, fetch |-> FALSE, dir |-> NoDir,
               run |-> NoRun]
    /\ listing = {}
    /\ enr = [s \in Sessions |-> NoEnroll]
    /\ cnl = [k \in 1..MaxCancels |-> NoCancel]
    /\ del = [k \in 1..MaxDeletes |-> NoDelete]
    /\ clr = [k \in 1..MaxClears |-> NoClear]
    /\ claimed = FALSE
    /\ dev_enrolling = FALSE
    /\ stream = NoStream
    /\ nsignals = 0
    /\ dlv = [s \in Sessions |-> <<>>]
    /\ reselected = FALSE
    /\ calc = NoCalc

\* AppModel::subscription, as the runtime applies it after every update: the
\* enrollment subscription is started when the four references are present and
\* it is not running, and its future is dropped when they no longer are.
subscription ==
    LET want == /\ enrolling_finger' # None
                /\ device_path'
                /\ connection'
                /\ selected_user' # Nothing
        s == Alive(enr)
    IN  IF want /\ s = 0
        THEN /\ enr' = [enr EXCEPT ![Started(enr) + 1] =
                          [NoEnroll EXCEPT !.pc = "claim",
                                           !.finger = enrolling_finger',
                                           !.user = Get(selected_user').username]]
             /\ UNCHANGED stream
        ELSE IF ~want /\ s # 0
        THEN /\ enr' = [enr EXCEPT ![s].pc = "dropped"]
             /\ stream' = NoStream
        ELSE UNCHANGED << enr, stream >>

\* AppModel::list_fingers_task: the listing tasks in flight after the call.
list_fingers_task(proxy, user) ==
    IF proxy /\ user # Nothing THEN listing \cup { Get(user).username } ELSE listing

\* ----------------------------------------------- requests of the user
\* What view_controls enables (src/src/app/mod.rs:830-873).
buttons_enabled == ~busy /\ device_path /\ enrolling_finger = None
current_finger == IF active = None THEN None ELSE as_finger_id(active)
is_enrolled ==
    IF current_finger # None
    THEN \E i \in 1..Len(enrolled_fingers) : enrolled_fingers[i] = current_finger
    ELSE enrolled_fingers # <<>>

\* A faulty on_nav_select that does not look at busy.
on_nav_select_busy(page) ==
    /\ confirm_clear' = FALSE
    /\ active' = page
    /\ UNCHANGED << status, device_path, connection, busy, enrolling_finger,
                    enroll_progress, enroll_total_stages, users, selected_user,
                    enrolled_fingers >>
    /\ subscription
    /\ UNCHANGED << inbox, boot, listing, cnl, del, clr, claimed, dev_enrolling,
                    nsignals, dlv, calc >>
    /\ reselected' = FALSE

\* AppModel::on_nav_select
on_nav_select(page) ==
    /\ IF busy
       THEN UNCHANGED << confirm_clear, active >>
       ELSE /\ confirm_clear' = FALSE
            /\ active' = page
    /\ UNCHANGED << status, device_path, connection, busy, enrolling_finger,
                    enroll_progress, enroll_total_stages, users, selected_user,
                    enrolled_fingers >>
    /\ subscription
    /\ UNCHANGED << inbox, boot, listing, cnl, del, clr, claimed, dev_enrolling,
                    nsignals, dlv, calc >>
    /\ reselected' = IF busy THEN confirm_clear \/ reselected ELSE FALSE

\* AppModel::on_user_selected
on_user_selected(user) ==
    /\ IF busy
       THEN UNCHANGED << confirm_clear, selected_user, enrolled_fingers, listing >>
       ELSE /\ confirm_clear' = FALSE
            /\ selected_user' = Some(user)
            /\ enrolled_fingers' = <<>>
            /\ listing' = list_fingers_task(device_path, Some(user))
    /\ UNCHANGED << status, device_path, connection, busy, enrolling_finger,
                    enroll_progress, enroll_total_stages, users, active >>
    /\ subscription
    /\ UNCHANGED << inbox, boot, cnl, del, clr, claimed, dev_enrolling,
                    nsignals, dlv, calc >>
    /\ reselected' = IF busy THEN confirm_clear \/ reselected ELSE FALSE

\* A faulty on_register that does not ask for the device.
on_register_no_device ==
    /\ IF active # None /\ current_finger # None /\ selected_user # Nothing
       THEN /\ busy' = TRUE
            /\ enrolling_finger' = current_finger
            /\ status' = fl("status-starting-enrollment")
       ELSE UNCHANGED << busy, enrolling_finger, status >>
    /\ UNCHANGED << device_path, connection, enroll_progress,
                    enroll_total_stages, users, selected_user, enrolled_fingers,
                    confirm_clear, active >>
    /\ subscription
    /\ UNCHANGED << inbox, boot, listing, cnl, del, clr, claimed, dev_enrolling,
                    nsignals, dlv, calc, reselected >>

\* AppModel::on_register
on_register ==
    /\ IF active # None /\ current_finger # None /\ device_path
          /\ selected_user # Nothing
       THEN /\ busy' = TRUE
            /\ enrolling_finger' = current_finger
            /\ status' = fl("status-starting-enrollment")
       ELSE UNCHANGED << busy, enrolling_finger, status >>
    /\ UNCHANGED << device_path, connection, enroll_progress,
                    enroll_total_stages, users, selected_user, enrolled_fingers,
                    confirm_clear, active >>
    /\ subscription
    /\ UNCHANGED << inbox, boot, listing, cnl, del, clr, claimed, dev_enrolling,
                    nsignals, dlv, calc, reselected >>

\* AppModel::on_enroll_stop: the task it makes issues its calls in CancelStop
\* and CancelRelease.
on_enroll_stop ==
    /\ IF device_path /\ connection
       THEN cnl' = [cnl EXCEPT ![Started(cnl) + 1] =
                      [NoCancel EXCEPT !.pc = "stop", !.sess = Alive(enr),
                                       !.live = stream.open /\ ~stream.ended]]
       ELSE UNCHANGED cnl
    /\ UNCHANGED appVars
    /\ subscription
    /\ UNCHANGED << inbox, boot, listing, del, clr, claimed, dev_enrolling,
                    nsignals, dlv, calc, reselected >>

\* A faulty on_delete that deletes for the first user of the list.
on_delete_first_user ==
    /\ IF active # None /\ device_path /\ connection /\ selected_user # Nothing
       THEN /\ status' = fl("deleting")
            /\ busy' = TRUE
            /\ del' = [del EXCEPT ![Started(del) + 1] =
                         [NoDelete EXCEPT
                             !.pc = "claim",
                             !.kind = IF current_finger # None THEN "one" ELSE "all",
                             !.finger = current_finger,
                             !.user = users[1].username]]
       ELSE UNCHANGED << status, busy, del >>
    /\ UNCHANGED << device_path, connection, enrolling_finger, enroll_progress,
                    enroll_total_stages, users, selected_user, enrolled_fingers,
                    confirm_clear, active >>
    /\ subscription
    /\ UNCHANGED << inbox, boot, listing, cnl, clr, claimed, dev_enrolling,
                    nsignals, dlv, calc, reselected >>

\* AppModel::on_delete: the task it makes runs delete_fingerprint_dbus on a
\* finger page and delete_fingers on the page of all fingers.
on_delete ==
    /\ IF active # None /\ device_path /\ connection /\ selected_user # Nothing
       THEN /\ status' = fl("deleting")
            /\ busy' = TRUE
            /\ del' = [del EXCEPT ![Started(del) + 1] =
                         [NoDelete EXCEPT
                             !.pc = "claim",
                             !.kind = IF current_finger # None THEN "one" ELSE "all",
                             !.finger = current_finger,
                             !.user = Get(selected_user).username]]
       ELSE UNCHANGED << status, busy, del >>
    /\ UNCHANGED << device_path, connection, enrolling_finger, enroll_progress,
                    enroll_total_stages, users, selected_user, enrolled_fingers,
                    confirm_clear, active >>
    /\ subscription
    /\ UNCHANGED << inbox, boot, listing, cnl, clr, claimed, dev_enrolling,
                    nsignals, dlv, calc, reselected >>

\* A faulty on_clear_device that asks for the connection only.
on_clear_device_no_path ==
    /\ IF ~confirm_clear
       THEN /\ confirm_clear' = TRUE
            /\ status' = fl("clear-device-confirm")
            /\ UNCHANGED << busy, clr >>
       ELSE IF connection
       THEN /\ status' = fl("clearing-device")
            /\ busy' = TRUE
            /\ confirm_clear' = FALSE
            /\ clr' = [clr EXCEPT ![Started(clr) + 1] =
                         [NoClear EXCEPT
                             !.pc = "claim",
                             !.todo = [i \in 1..Len(users) |-> users[i].username]]]
       ELSE UNCHANGED << confirm_clear, status, busy, clr >>
    /\ UNCHANGED << device_path, connection, enrolling_finger, enroll_progress,
                    enroll_total_stages, users, selected_user, enrolled_fingers,
                    active >>
    /\ subscription
    /\ UNCHANGED << inbox, boot, listing, cnl, del, claimed, dev_enrolling,
                    nsignals, dlv, calc >>
    /\ reselected' = FALSE

\* AppModel::on_clear_device
on_clear_device ==
    /\ IF ~confirm_clear
       THEN /\ confirm_clear' = TRUE
            /\ status' = fl("clear-device-confirm")
            /\ UNCHANGED << busy, clr >>
       ELSE IF device_path /\ connection
       THEN /\ status' = fl("clearing-device")
            /\ busy' = TRUE
            /\ confirm_clear' = FALSE
            /\ clr' = [clr EXCEPT ![Started(clr) + 1] =
                         [NoClear EXCEPT
                             !.pc = "claim",
                             !.todo = [i \in 1..Len(users) |-> users[i].username]]]
       ELSE UNCHANGED << confirm_clear, status, busy, clr >>
    /\ UNCHANGED << device_path, connection, enrolling_finger, enroll_progress,
                    enroll_total_stages, users, selected_user, enrolled_fingers,
                    active >>
    /\ subscription
    /\ UNCHANGED << inbox, boot, listing, cnl, del, claimed, dev_enrolling,
                    nsignals, dlv, calc >>
    /\ reselected' = FALSE

\* The requests the view lets the user make in the current state.
NavSelect == \E page \in NavChoices : on_nav_select(page)
\* The same, over every page of the nav bar (init inserts Page::all()).
NavSelectAny == \E i \in 1..Len(PageAll) : on_nav_select(PageAll[i])
UserSelected ==
    /\ Len(inbox) + Cardinality(listing) < MaxInbox
    /\ \E i \in 1..Len(users) : on_user_selected(users[i])
Register ==
    /\ buttons_enabled /\ current_finger # None
    /\ Started(enr) < MaxSessions
    /\ on_register
EnrollStop ==
    /\ enrolling_finger # None
    /\ Started(cnl) < MaxCancels
    /\ on_enroll_stop
Delete ==
    /\ buttons_enabled /\ is_enrolled
    /\ Started(del) < MaxDeletes
    /\ on_delete
ClearDevice ==
    /\ ~busy /\ device_path /\ enrolling_finger = None
    /\ Started(clr) < MaxClears
    /\ on_clear_device

\* The same requests reaching update whatever the view shows by now: update
\* hands Message::Register, Message::Delete and Message::ClearDevice to their
\* handlers without a condition of its own (src/src/app/mod.rs:356-374).
PressRegister ==
    /\ Started(enr) < MaxSessions
    /\ on_register
PressDelete ==
    /\ Started(del) < MaxDeletes
    /\ on_delete
PressClear ==
    /\ Started(clr) < MaxClears
    /\ on_clear_device

\* ------------------------------------------------ AppModel::update
\* The result codes on_enroll_status has a localized text for.
KnownStatus ==
    { "enroll-stage-passed", "enroll-retry-scan", "enroll-swipe-too-short",
      "enroll-finger-not-centered", "enroll-remove-and-retry",
      "enroll-unknown-error", "enroll-completed", "enroll-failed",
      "enroll-disconnected", "enroll-data-full", "enroll-too-fast",
      "enroll-duplicate", "enroll-cancelled" }

\* The record of a task whose result update has handled: its log is dropped.
Gone(none) == [none EXCEPT !.pc = "gone"]

\* How an enrollment event counts in dlv: the kind of task it comes from and
\* what it is for the session.
Tag(m) ==
    [src |-> m.src,
     kind |-> CASE m.type = "EnrollStart" -> "started"
                [] m.type = "EnrollStatus" -> IF m.b THEN "terminal" ELSE "progress"
                [] m.type = "OperationError" -> "error"
                [] OTHER -> "other",
     code |-> IF m.type = "EnrollStatus" THEN m.a ELSE None]

\* What every handling of a message does besides the handler: the message
\* leaves the queue and the runtime re-evaluates subscription().
Handled(m) ==
    /\ inbox' = Tail(inbox)
    /\ dlv' = IF m.src \in { "enroll", "cancel" } /\ m.sess \in Sessions
              THEN [dlv EXCEPT ![m.sess] = Append(@, Tag(m))]
              ELSE dlv
    /\ subscription
    /\ del' = IF m.src = "delete" THEN [del EXCEPT ![m.sess] = Gone(NoDelete)]
              ELSE del
    /\ clr' = IF m.src = "clear" THEN [clr EXCEPT ![m.sess] = Gone(NoClear)]
              ELSE clr
    /\ UNCHANGED << claimed, dev_enrolling, nsignals, calc, reselected, cnl >>

\* AppModel::on_connection_ready: the connection is kept and the discovery and
\* user directory tasks are started.
on_connection_ready ==
    /\ connection' = TRUE
    /\ status' = fl("status-searching-device")
    /\ boot' = [boot EXCEPT !.find = TRUE, !.fetch = TRUE]
    /\ UNCHANGED << device_path, busy, enrolling_finger, enroll_progress,
                    enroll_total_stages, users, selected_user, enrolled_fingers,
                    confirm_clear, active, listing >>

\* users.iter().find(|u| u.username == selected.username)
FindUser(us, sel) ==
    IF \E i \in 1..Len(us) : us[i].username = sel.username
    THEN Some(us[CHOOSE i \in 1..Len(us) :
                     /\ us[i].username = sel.username
                     /\ \A j \in 1..(i - 1) : us[j].username # sel.username])
    ELSE Nothing

\* A faulty on_users_found that keeps the selection it had when its
\* username is in the new list.
on_users_found_keeps(found) ==
    /\ users' = found
    /\ selected_user' =
          IF selected_user # Nothing
          THEN IF FindUser(found, Get(selected_user)) = Nothing
               THEN IF found # <<>> THEN Some(found[1]) ELSE selected_user
               ELSE selected_user
          ELSE IF found # <<>> THEN Some(found[1]) ELSE selected_user
    /\ listing' = list_fingers_task(device_path, selected_user')
    /\ UNCHANGED << status, device_path, connection, busy, enrolling_finger,
                    enroll_progress, enroll_total_stages, enrolled_fingers,
                    confirm_clear, active, boot >>

\* AppModel::on_users_found
on_users_found(found) ==
    /\ users' = found
    /\ selected_user' =
          IF selected_user # Nothing
          THEN IF FindUser(found, Get(selected_user)) = Nothing
               THEN IF found # <<>> THEN Some(found[1]) ELSE selected_user
               ELSE FindUser(found, Get(selected_user))
          ELSE IF found # <<>> THEN Some(found[1]) ELSE selected_user
    /\ listing' = list_fingers_task(device_path, selected_user')
    /\ UNCHANGED << status, device_path, connection, busy, enrolling_finger,
                    enroll_progress, enroll_total_stages, enrolled_fingers,
                    confirm_clear, active, boot >>

\* AppModel::on_device_found
on_device_found(device_info) ==
    /\ IF device_info
       THEN /\ device_path' = TRUE
            /\ status' = fl("status-device-found")
            /\ busy' = FALSE
            /\ listing' = IF selected_user # Nothing
                          THEN list_fingers_task(TRUE, selected_user)
                          ELSE listing
       ELSE /\ device_path' = FALSE
            /\ status' = fl("status-no-device-found")
            /\ busy' = TRUE
            /\ UNCHANGED listing
    /\ UNCHANGED << connection, enrolling_finger, enroll_progress,
                    enroll_total_stages, users, selected_user, enrolled_fingers,
                    confirm_clear, active, boot >>

\* A faulty on_enroll_status that counts every signal that is not the last.
on_enroll_status_counts_all(result, done) ==
    /\ enroll_progress' = IF ~done THEN enroll_progress + 1 ELSE enroll_progress
    /\ status' = IF result \in KnownStatus THEN fl(result) ELSE << result >>
    /\ IF done
       THEN /\ busy' = FALSE
            /\ enrolling_finger' = None
            /\ listing' = IF result = "enroll-completed"
                          THEN list_fingers_task(device_path, selected_user)
                          ELSE listing
       ELSE UNCHANGED << busy, enrolling_finger, listing >>
    /\ UNCHANGED << device_path, connection, enroll_total_stages, users,
                    selected_user, enrolled_fingers, confirm_clear, active, boot >>

\* A faulty on_enroll_status that refreshes the listing after every last
\* signal.
on_enroll_status_refreshes(result, done) ==
    /\ enroll_progress' = IF result = "enroll-stage-passed"
                          THEN enroll_progress + 1
                          ELSE enroll_progress
    /\ status' = IF result \in KnownStatus THEN fl(result) ELSE << result >>
    /\ IF done
       THEN /\ busy' = FALSE
            /\ enrolling_finger' = None
            /\ listing' = list_fingers_task(device_path, selected_user)
       ELSE UNCHANGED << busy, enrolling_finger, listing >>
    /\ UNCHANGED << device_path, connection, enroll_total_stages, users,
                    selected_user, enrolled_fingers, confirm_clear, active, boot >>

\* AppModel::on_enroll_status
on_enroll_status(result, done) ==
    /\ enroll_progress' = IF result = "enroll-stage-passed"
                          THEN enroll_progress + 1
                          ELSE enroll_progress
    /\ status' = IF result \in KnownStatus THEN fl(result) ELSE << result >>
    /\ IF done
       THEN /\ busy' = FALSE
            /\ enrolling_finger' = None
            /\ listing' = IF result = "enroll-completed"
                          THEN list_fingers_task(device_path, selected_user)
                          ELSE listing
       ELSE UNCHANGED << busy, enrolling_finger, listing >>
    /\ UNCHANGED << device_path, connection, enroll_total_stages, users,
                    selected_user, enrolled_fingers, confirm_clear, active, boot >>

\* update, Message::EnrolledFingers
on_enrolled_fingers(fingers) ==
    /\ enrolled_fingers' = fingers
    /\ UNCHANGED << status, device_path, connection, busy, enrolling_finger,
                    enroll_progress, enroll_total_stages, users, selected_user,
                    confirm_clear, active, boot, listing >>

\* A faulty OperationError handler that shows the error and leaves the
\* operation marked as running.
on_operation_error_stays(err) ==
    /\ status' = localized_message(err)
    /\ UNCHANGED << device_path, connection, busy, enrolling_finger,
                    enroll_progress, enroll_total_stages, users, selected_user,
                    enrolled_fingers, confirm_clear, active, boot, listing >>

\* update, Message::OperationError
on_operation_error(err) ==
    /\ status' = localized_message(err)
    /\ busy' = FALSE
    /\ enrolling_finger' = None
    /\ UNCHANGED << device_path, connection, enroll_progress,
                    enroll_total_stages, users, selected_user, enrolled_fingers,
                    confirm_clear, active, boot, listing >>

\* update, Message::EnrollStart
on_enroll_start(total) ==
    /\ enroll_total_stages' = total
    /\ enroll_progress' = 0
    /\ status' = fl("enroll-starting")
    /\ UNCHANGED << device_path, connection, busy, enrolling_finger, users,
                    selected_user, enrolled_fingers, confirm_clear, active,
                    boot, listing >>

\* Vec::retain(|f| f != finger)
Retain(fingers, finger) == SelectSeq(fingers, LAMBDA f : f # finger)

\* update, Message::DeleteComplete
on_delete_complete ==
    /\ status' = fl("deleted")
    /\ busy' = FALSE
    /\ enrolled_fingers' =
          IF active = None THEN enrolled_fingers
          ELSE IF as_finger_id(active) # None
          THEN Retain(enrolled_fingers, as_finger_id(active))
          ELSE <<>>
    /\ UNCHANGED << device_path, connection, enrolling_finger, enroll_progress,
                    enroll_total_stages, users, selected_user, confirm_clear,
                    active, boot, listing >>

\* update, Message::ClearComplete
on_clear_complete(res) ==
    /\ IF IsOk(res)
       THEN /\ status' = fl("device-cleared")
            /\ enrolled_fingers' = <<>>
       ELSE /\ status' = localized_message(res.err)
            /\ UNCHANGED enrolled_fingers
    /\ busy' = FALSE
    /\ UNCHANGED << device_path, connection, enrolling_finger, enroll_progress,
                    enroll_total_stages, users, selected_user, confirm_clear,
                    active, boot, listing >>

\* update: the next message of the queue is handled.
HandleConnectionReady ==
    /\ inbox # <<>> /\ Head(inbox).type = "ConnectionReady"
    /\ on_connection_ready /\ Handled(Head(inbox))
HandleUsersFound ==
    /\ inbox # <<>> /\ Head(inbox).type = "UsersFound"
    /\ on_users_found(Head(inbox).a) /\ Handled(Head(inbox))
HandleDeviceFound ==
    /\ inbox # <<>> /\ Head(inbox).type = "DeviceFound"
    /\ on_device_found(Head(inbox).a) /\ Handled(Head(inbox))
HandleEnrolledFingers ==
    /\ inbox # <<>> /\ Head(inbox).type = "EnrolledFingers"
    /\ on_enrolled_fingers(Head(inbox).a) /\ Handled(Head(inbox))
HandleOperationError ==
    /\ inbox # <<>> /\ Head(inbox).type = "OperationError"
    /\ on_operation_error(Head(inbox).a) /\ Handled(Head(inbox))
HandleEnrollStart ==
    /\ inbox # <<>> /\ Head(inbox).type = "EnrollStart"
    /\ on_enroll_start(Head(inbox).a) /\ Handled(Head(inbox))
HandleEnrollStatus ==
    /\ inbox # <<>> /\ Head(inbox).type = "EnrollStatus"
    /\ on_enroll_status(Head(inbox).a, Head(inbox).b) /\ Handled(Head(inbox))
HandleDeleteComplete ==
    /\ inbox # <<>> /\ Head(inbox).type = "DeleteComplete"
    /\ on_delete_complete /\ Handled(Head(inbox))
HandleClearComplete ==
    /\ inbox # <<>> /\ Head(inbox).type = "ClearComplete"
    /\ on_clear_complete(Head(inbox).a) /\ Handled(Head(inbox))

\* ------------------------------------------------- startup tasks
\* AppModel::init, connect_task: zbus::Connection::system()
Connect ==
    /\ boot.connect
    /\ boot' = [boot EXCEPT !.connect = FALSE]
    /\ \E ok \in BOOLEAN :
         inbox' = Append(inbox,
            IF ok THEN Msg("ConnectionReady", None, None, "connect", 0)
            ELSE Msg("OperationError", AppErr("ConnectDbus", << E_Io.name >>),
                     None, "connect", 0))
    /\ UNCHANGED << appVars, listing, enr, cnl, del, clr, devVars, ghostVars >>

\* A faulty discovery task that reports the converted error as it is.
FindDeviceRaw ==
    /\ boot.find
    /\ boot' = [boot EXCEPT !.find = FALSE]
    /\ \E r \in FindDeviceReplies :
         /\ inbox' = Append(inbox,
              IF IsOk(r) THEN Msg("DeviceFound", TRUE, None, "find", 0)
              ELSE Msg("OperationError", FromZbus(r.err), None, "find", 0))
         /\ calc' = IF IsOk(r) THEN calc
                    ELSE [calc EXCEPT !.zerr = r.err,
                                      !.mapped = Some(FromZbus(r.err))]
    /\ UNCHANGED << appVars, listing, enr, cnl, del, clr, devVars, nsignals, dlv,
                    reselected >>

\* on_connection_ready, find_device_task (with fprint.rs find_device); the
\* error of a failed discovery and its conversion are kept in calc.
FindDevice ==
    /\ boot.find
    /\ boot' = [boot EXCEPT !.find = FALSE]
    /\ \E r \in FindDeviceReplies :
         /\ inbox' = Append(inbox,
              IF IsOk(r) THEN Msg("DeviceFound", TRUE, None, "find", 0)
              ELSE IF FromZbus(r.err).tag = "Unknown"
              THEN Msg("OperationError", AppErr("DeviceNotFound", <<>>), None,
                       "find", 0)
              ELSE Msg("OperationError", FromZbus(r.err), None, "find", 0))
         /\ calc' = IF IsOk(r) THEN calc
                    ELSE [calc EXCEPT !.zerr = r.err,
                                      !.mapped = Some(FromZbus(r.err))]
    /\ UNCHANGED << appVars, listing, enr, cnl, del, clr, devVars, nsignals, dlv,
                    reselected >>

\* on_connection_ready, fetch_users_task
FetchUsersOf(dirs) ==
    /\ boot.fetch
    /\ \E dir \in dirs :
         /\ boot' = [boot EXCEPT !.fetch = FALSE, !.dir = dir]
         /\ inbox' = Append(inbox,
               Msg("UsersFound", fetch_users(dir), None, "fetch", 0))
    /\ UNCHANGED << appVars, listing, enr, cnl, del, clr, devVars, ghostVars >>
FetchUsers == FetchUsersOf(Directories)

\* The same task, one remote call at a time.  list_cached_users returns the
\* paths.
FetchList ==
    /\ boot.fetch /\ ~boot.run.on
    /\ \E dir \in LongDirectories :
         boot' = [boot EXCEPT !.dir = dir, !.run = [NoRun EXCEPT !.on = TRUE]]
    /\ UNCHANGED << appVars, inbox, listing, enr, cnl, del, clr, devVars, ghostVars >>

\* The fetches the buffer holds: started and not yet yielded, returned or
\* not.
Buffered(run) == (run.yielded + 1)..run.started

\* The fetches whose remote calls have not returned.
InFlight(run) == Buffered(run) \ run.back

\* A faulty buffer that takes every account the listing has at once.
FetchStartAll ==
    /\ boot.run.on
    /\ boot.run.started < Len(boot.dir.paths)
    /\ boot' = [boot EXCEPT !.run.started = @ + 1]
    /\ UNCHANGED << appVars, inbox, listing, enr, cnl, del, clr, devVars, ghostVars >>

\* Buffered::poll_next: the next account's fetch is started while the buffer
\* holds fewer than USER_FETCH_CONCURRENCY of them.
FetchStart ==
    /\ boot.run.on
    /\ boot.run.started < Len(boot.dir.paths)
    /\ Cardinality(Buffered(boot.run)) < USER_FETCH_CONCURRENCY
    /\ boot' = [boot EXCEPT !.run.started = @ + 1]
    /\ UNCHANGED << appVars, inbox, listing, enr, cnl, del, clr, devVars, ghostVars >>

\* The remote calls of one fetch return.
FetchReturn ==
    /\ boot.run.on
    /\ \E i \in InFlight(boot.run) :
         boot' = [boot EXCEPT !.run.back = @ \cup { i }]
    /\ UNCHANGED << appVars, inbox, listing, enr, cnl, del, clr, devVars, ghostVars >>

\* The buffer yields the result of its oldest fetch, once it has returned.
FetchYield ==
    /\ boot.run.on
    /\ boot.run.yielded + 1 \in boot.run.back
    /\ boot' = [boot EXCEPT !.run.yielded = @ + 1,
                            !.run.back = @ \ { boot.run.yielded + 1 }]
    /\ UNCHANGED << appVars, inbox, listing, enr, cnl, del, clr, devVars, ghostVars >>

\* collect ends with the last result and the list is sent.
FetchSend ==
    /\ boot.run.on /\ boot.fetch
    /\ boot.run.yielded = Len(boot.dir.paths)
    /\ boot' = [boot EXCEPT !.fetch = FALSE]
    /\ inbox' = Append(inbox,
           Msg("UsersFound", fetch_users(boot.dir), None, "fetch", 0))
    /\ UNCHANGED << appVars, listing, enr, cnl, del, clr, devVars, ghostVars >>
FetchPlainUsers == FetchUsersOf(PlainDirectories)

\* The prints the device holds for each user.
DevicePrints(u) ==
    IF u = "alice" THEN << "right-index-finger" >> ELSE << "left-thumb" >>

\* list_fingers_task's future, with the device answering by the prints of
\* the user the listing asks for.
ListFingersOfUser ==
    \E u \in listing :
      /\ listing' = listing \ { u }
      /\ \E r \in { OkVal(DevicePrints(u)), Err(E_NoEnrolledPrints) } :
           inbox' = Append(inbox,
              IF IsOk(r) THEN Msg("EnrolledFingers", r.val, None, "list", 0)
              ELSE Msg("OperationError",
                       with_context(FromZbus(r.err), "Failed to list fingers"),
                       None, "list", 0))
      /\ UNCHANGED << appVars, boot, enr, cnl, del, clr, devVars, ghostVars >>

\* list_fingers_task's future (with fprint.rs list_enrolled_fingers_dbus)
ListFingers ==
    \E u \in listing :
      /\ listing' = listing \ { u }
      /\ \E r \in ListReplies :
           inbox' = Append(inbox,
              IF IsOk(r) THEN Msg("EnrolledFingers", r.val, None, "list", 0)
              ELSE Msg("OperationError",
                       with_context(FromZbus(r.err), "Failed to list fingers"),
                       None, "list", 0))
      /\ UNCHANGED << appVars, boot, enr, cnl, del, clr, devVars, ghostVars >>

\* -------------------------------------------- the enrollment task
\* enroll_fingerprint_process (src/src/app/fprint.rs:81-155) inside the
\* subscription's future (src/src/app/mod.rs:279-299), one step per await.
Logged(e, op, arg, r) == [e EXCEPT !.calls = Append(@, Call(op, arg, r))]
Sent(e, type) == [e EXCEPT !.sent = Append(@, type)]
At(e, pc) == [e EXCEPT !.pc = pc]
EnrollAt(pc) == Alive(enr) # 0 /\ enr[Alive(enr)].pc = pc

\* A faulty claim that asks again until the device is free.
EnrollClaimRetrying ==
    /\ EnrollAt("claim")
    /\ LET s == Alive(enr) IN
       \E r \in ClaimReplies :
         /\ DevClaim(r)
         /\ enr' = [enr EXCEPT ![s] =
               IF IsOk(r) THEN At(Logged(@, "claim", @.user, r), "stages")
               ELSE IF r = Err(E_AlreadyInUse) /\ Len(@.calls) < 2
               THEN At(Logged(@, "claim", @.user, r), "claim")
               ELSE [At(Logged(@, "claim", @.user, r), "report")
                        EXCEPT !.ret = r]]
    /\ UNCHANGED << appVars, inbox, boot, listing, cnl, del, clr, ghostVars >>

\* device.claim(&username).await, and return Err(e) on failure
EnrollClaim ==
    /\ EnrollAt("claim")
    /\ LET s == Alive(enr) IN
       \E r \in ClaimReplies :
         /\ DevClaim(r)
         /\ enr' = [enr EXCEPT ![s] =
               IF IsOk(r) THEN At(Logged(@, "claim", @.user, r), "stages")
               ELSE [At(Logged(@, "claim", @.user, r), "report")
                        EXCEPT !.ret = r]]
    /\ UNCHANGED << appVars, inbox, boot, listing, cnl, del, clr, ghostVars >>

\* A faulty stage query that carries whatever number the device answered.
EnrollStagesUnfiltered(replies) ==
    /\ EnrollAt("stages")
    /\ LET s == Alive(enr) IN
       \E r \in replies :
         enr' = [enr EXCEPT ![s] =
            [At(Logged(@, "num_enroll_stages", None, r), "send_start")
                EXCEPT !.total = IF IsOk(r) THEN Some(r.val) ELSE Nothing]]
    /\ UNCHANGED << appVars, inbox, boot, listing, cnl, del, clr, devVars,
                    ghostVars >>

\* device.num_enroll_stages().await
EnrollStagesOf(replies) ==
    /\ EnrollAt("stages")
    /\ LET s == Alive(enr) IN
       \E r \in replies :
         enr' = [enr EXCEPT ![s] =
            [At(Logged(@, "num_enroll_stages", None, r), "send_start")
                EXCEPT !.total = IF IsOk(r) /\ r.val > 0 THEN Some(r.val)
                                 ELSE Nothing]]
    /\ UNCHANGED << appVars, inbox, boot, listing, cnl, del, clr, devVars,
                    ghostVars >>

EnrollStages == EnrollStagesOf(StagesReplies)
EnrollStagesAny == EnrollStagesOf(StreamStagesReplies)

\* output.send(Message::EnrollStart(total_stages)).await
EnrollSendStart ==
    /\ EnrollAt("send_start")
    /\ LET s == Alive(enr) IN
         /\ inbox' = Append(inbox,
               Msg("EnrollStart", enr[s].total, None, "enroll", s))
         /\ enr' = [enr EXCEPT ![s] = At(Sent(@, "EnrollStart"), "start")]
    /\ UNCHANGED << appVars, boot, listing, cnl, del, clr, devVars, ghostVars >>

\* A faulty start step that returns the error without releasing the device.
EnrollStartNoRelease ==
    /\ EnrollAt("start")
    /\ LET s == Alive(enr) IN
       \E r \in EnrollStartReplies :
         /\ DevEnrollStart(r)
         /\ enr' = [enr EXCEPT ![s] =
               IF IsOk(r) THEN At(Logged(@, "enroll_start", @.finger, r), "subscribe")
               ELSE [At(Logged(@, "enroll_start", @.finger, r), "report")
                        EXCEPT !.ret = r]]
    /\ UNCHANGED << appVars, inbox, boot, listing, cnl, del, clr, ghostVars >>

\* device.enroll_start(&finger_name).await
EnrollStart ==
    /\ EnrollAt("start")
    /\ LET s == Alive(enr) IN
       \E r \in EnrollStartReplies :
         /\ DevEnrollStart(r)
         /\ enr' = [enr EXCEPT ![s] =
               IF IsOk(r) THEN At(Logged(@, "enroll_start", @.finger, r), "subscribe")
               ELSE [At(Logged(@, "enroll_start", @.finger, r), "release_err")
                        EXCEPT !.ret = r]]
    /\ UNCHANGED << appVars, inbox, boot, listing, cnl, del, clr, ghostVars >>

\* device.receive_enroll_status().await
EnrollSubscribe ==
    /\ EnrollAt("subscribe")
    /\ LET s == Alive(enr) IN
       \E r \in SubscribeReplies :
         /\ enr' = [enr EXCEPT ![s] =
               IF IsOk(r)
               THEN At(Logged(@, "receive_enroll_status", None, r), "next")
               ELSE [At(Logged(@, "receive_enroll_status", None, r), "release_err")
                        EXCEPT !.ret = r]]
         /\ stream' = IF IsOk(r) THEN [NoStream EXCEPT !.open = TRUE] ELSE stream
    /\ UNCHANGED << appVars, inbox, boot, listing, cnl, del, clr, claimed,
                    dev_enrolling, ghostVars >>

\* let _ = device.release().await; return Err(e)  (lines 111-112, 119-120)
EnrollReleaseErr ==
    /\ EnrollAt("release_err")
    /\ LET s == Alive(enr) IN
       \E r \in ReleaseReplies :
         /\ DevRelease
         /\ enr' = [enr EXCEPT ![s] = At(Logged(@, "release", None, r), "report")]
    /\ UNCHANGED << appVars, inbox, boot, listing, cnl, del, clr, ghostVars >>

\* stream.next().await: a signal, a signal that does not parse, or the end
EnrollNext ==
    /\ EnrollAt("next")
    /\ stream.q # <<>>
    /\ LET s == Alive(enr)
           sig == Head(stream.q)
       IN  /\ stream' = [stream EXCEPT !.q = Tail(@)]
           /\ enr' = [enr EXCEPT ![s] =
                 CASE sig.kind = "status" ->
                        [At(@, "send_status") EXCEPT
                            !.cur = << sig.result, sig.done >>,
                            !.got = Append(@, << sig.result, sig.done >>)]
                   [] sig.kind = "bad" -> At(@, "send_parse_error")
                   [] sig.kind = "end" -> At(@, "release")]
    /\ UNCHANGED << appVars, inbox, boot, listing, cnl, del, clr, claimed,
                    dev_enrolling, ghostVars >>

\* A faulty send that puts the status event on the channel twice.
EnrollSendStatusTwice ==
    /\ EnrollAt("send_status")
    /\ LET s == Alive(enr)
           m == Msg("EnrollStatus", enr[s].cur[1], enr[s].cur[2], "enroll", s)
       IN
         /\ inbox' = Append(Append(inbox, m), m)
         /\ enr' = [enr EXCEPT ![s] =
               At(Sent(@, "EnrollStatus"),
                  IF enr[s].cur[2] THEN "release" ELSE "next")]
    /\ UNCHANGED << appVars, boot, listing, cnl, del, clr, devVars, ghostVars >>

\* output.send(Message::EnrollStatus(result, done)).await; if done { break }
EnrollSendStatus ==
    /\ EnrollAt("send_status")
    /\ LET s == Alive(enr) IN
         /\ inbox' = Append(inbox,
               Msg("EnrollStatus", enr[s].cur[1], enr[s].cur[2], "enroll", s))
         /\ enr' = [enr EXCEPT ![s] =
               At(Sent(@, "EnrollStatus"),
                  IF enr[s].cur[2] THEN "release" ELSE "next")]
    /\ UNCHANGED << appVars, boot, listing, cnl, del, clr, devVars, ghostVars >>

\* output.send(Message::OperationError(Unknown("Failed to parse signal"))); break
EnrollSendParseError ==
    /\ EnrollAt("send_parse_error")
    /\ LET s == Alive(enr) IN
         /\ inbox' = Append(inbox,
               Msg("OperationError",
                   AppErr("Unknown", << "Failed to parse signal" >>), None,
                   "enroll", s))
         /\ enr' = [enr EXCEPT ![s] = At(Sent(@, "OperationError"), "release")]
    /\ UNCHANGED << appVars, boot, listing, cnl, del, clr, devVars, ghostVars >>

\* let _ = device.release().await; Ok(())  (lines 151-154), then pending()
EnrollRelease ==
    /\ EnrollAt("release")
    /\ LET s == Alive(enr) IN
       \E r \in ReleaseReplies :
         /\ DevRelease
         /\ enr' = [enr EXCEPT ![s] = At(Logged(@, "release", None, r), "pending")]
    /\ UNCHANGED << appVars, inbox, boot, listing, cnl, del, clr, ghostVars >>

\* Err(e) => output.send(Message::OperationError(AppError::from(e))), then pending()
EnrollReport ==
    /\ EnrollAt("report")
    /\ LET s == Alive(enr) IN
         /\ inbox' = Append(inbox,
               Msg("OperationError", FromZbus(enr[s].ret.err), None, "enroll", s))
         /\ enr' = [enr EXCEPT ![s] = At(Sent(@, "OperationError"), "pending")]
    /\ UNCHANGED << appVars, boot, listing, cnl, del, clr, devVars, ghostVars >>

\* ------------------------------------------------------ the device
\* The device emits a status signal of the running enrollment; a signal with
\* done ends the enrollment on the device.
EmitSignalOf(choices, max) ==
    /\ dev_enrolling
    /\ nsignals < max
    /\ nsignals' = nsignals + 1
    /\ \E sig \in choices :
         /\ dev_enrolling' = ~sig[2]
         /\ stream' = IF stream.open /\ ~stream.ended
                      THEN [stream EXCEPT !.q = Append(@,
                              [kind |-> "status", result |-> sig[1], done |-> sig[2]])]
                      ELSE stream
    /\ UNCHANGED << appVars, taskVars, claimed, dlv, calc, reselected >>
EmitSignal == EmitSignalOf(SignalChoices, MaxSignals)
EmitAnySignal == EmitSignalOf(StreamSignalChoices, MaxStream)

\* A signal arrives whose body does not parse as (result, done).
BadSignal ==
    /\ dev_enrolling
    /\ stream.open /\ ~stream.ended
    /\ nsignals < MaxSignals
    /\ nsignals' = nsignals + 1
    /\ stream' = [stream EXCEPT !.q = Append(@,
                     [kind |-> "bad", result |-> None, done |-> FALSE])]
    /\ UNCHANGED << appVars, taskVars, claimed, dev_enrolling, dlv, calc, reselected >>

\* The status stream ends (the connection is closed).
StreamEnd ==
    /\ stream.open /\ ~stream.ended
    /\ stream' = [stream EXCEPT !.ended = TRUE,
                     !.q = Append(@, [kind |-> "end", result |-> None, done |-> FALSE])]
    /\ UNCHANGED << appVars, taskVars, claimed, dev_enrolling, nsignals, dlv, calc,
                    reselected >>

\* A faulty cancel task that gives up when enroll_stop fails
\* (device.enroll_stop().await?) instead of ignoring its result.
CancelStopChecked(k) ==
    /\ cnl[k].pc = "stop"
    /\ \E r \in EnrollStopReplies :
         /\ DevEnrollStop(r)
         /\ cnl' = [cnl EXCEPT ![k] =
               At(Logged(@, "enroll_stop", None, r),
                  IF IsOk(r) THEN "release" ELSE "done")]
         /\ inbox' = IF IsOk(r) THEN inbox
                      ELSE Append(inbox,
                              [type |-> "OperationError", a |-> FromZbus(r.err),
                               b |-> None, src |-> "cancel", sess |-> cnl[k].sess])
    /\ UNCHANGED << appVars, boot, listing, enr, del, clr, ghostVars >>

\* ------------------------------------------------- the cancel task
\* on_enroll_stop's future: let _ = device.enroll_stop().await
CancelStop(k) ==
    /\ cnl[k].pc = "stop"
    /\ \E r \in EnrollStopReplies :
         /\ DevEnrollStop(r)
         /\ cnl' = [cnl EXCEPT ![k] = At(Logged(@, "enroll_stop", None, r), "release")]
    /\ UNCHANGED << appVars, inbox, boot, listing, enr, del, clr, ghostVars >>

\* on_enroll_stop's future: device.release().await?, and the message made of
\* its result
CancelRelease(k) ==
    /\ cnl[k].pc = "release"
    /\ \E r \in ReleaseReplies :
         /\ DevRelease
         /\ cnl' = [cnl EXCEPT ![k] = At(Logged(@, "release", None, r), "done")]
         /\ inbox' = Append(inbox,
               IF IsOk(r)
               THEN Msg("EnrollStatus", "enroll-cancelled", TRUE, "cancel",
                        cnl[k].sess)
               ELSE Msg("OperationError", FromZbus(r.err), None, "cancel",
                        cnl[k].sess))
    /\ UNCHANGED << appVars, boot, listing, enr, del, clr, ghostVars >>

\* ------------------------------------------------- the delete tasks
\* The message on_delete's future makes of the function's result.
DeleteMessage(ret, k) ==
    IF IsOk(ret) THEN Msg("DeleteComplete", None, None, "delete", k)
    ELSE Msg("OperationError", FromZbus(ret.err), None, "delete", k)

\* A faulty delete_fingerprint_dbus that goes from the claim straight to the
\* release.
DeleteClaimSkipping(k) ==
    /\ del[k].pc = "claim" /\ del[k].kind = "one"
    /\ \E r \in ClaimReplies :
         /\ DevClaim(r)
         /\ del' = [del EXCEPT ![k] =
               IF IsOk(r) THEN At(Logged(@, "claim", @.user, r), "release")
               ELSE [At(Logged(@, "claim", @.user, r), "done") EXCEPT !.ret = r]]
         /\ inbox' = IF IsOk(r) THEN inbox ELSE Append(inbox, DeleteMessage(r, k))
    /\ UNCHANGED << appVars, boot, listing, enr, cnl, clr, ghostVars >>

\* delete_fingerprint_dbus: device.claim(&username).await?
DeleteClaim(k) ==
    /\ del[k].pc = "claim" /\ del[k].kind = "one"
    /\ \E r \in ClaimReplies :
         /\ DevClaim(r)
         /\ del' = [del EXCEPT ![k] =
               IF IsOk(r) THEN At(Logged(@, "claim", @.user, r), "delete")
               ELSE [At(Logged(@, "claim", @.user, r), "done") EXCEPT !.ret = r]]
         /\ inbox' = IF IsOk(r) THEN inbox ELSE Append(inbox, DeleteMessage(r, k))
    /\ UNCHANGED << appVars, boot, listing, enr, cnl, clr, ghostVars >>

\* delete_fingerprint_dbus: let res = device.delete_enrolled_finger(&finger).await
DeleteFinger(k) ==
    /\ del[k].pc = "delete" /\ del[k].kind = "one"
    /\ \E r \in DeleteReplies :
         del' = [del EXCEPT ![k] =
            [At(Logged(@, "delete_enrolled_finger", @.finger, r), "release")
                EXCEPT !.res = r]]
    /\ UNCHANGED << appVars, inbox, boot, listing, enr, cnl, clr, devVars,
                    ghostVars >>

\* delete_fingerprint_dbus: let rel_res = device.release().await; res.and(rel_res)
DeleteRelease(k) ==
    /\ del[k].pc = "release" /\ del[k].kind = "one"
    /\ \E r \in ReleaseReplies :
         /\ DevRelease
         /\ del' = [del EXCEPT ![k] =
               [At(Logged(@, "release", None, r), "done")
                   EXCEPT !.ret = ResultAnd(del[k].res, r)]]
         /\ inbox' = Append(inbox, DeleteMessage(ResultAnd(del[k].res, r), k))
    /\ UNCHANGED << appVars, boot, listing, enr, cnl, clr, ghostVars >>

\* delete_fingers (delete_all_for_user): claim, delete all fingers of the
\* user, release.  Its body is not among the source files.
DeleteAllClaim(k) ==
    /\ del[k].pc = "claim" /\ del[k].kind = "all"
    /\ \E r \in ClaimReplies :
         /\ DevClaim(r)
         /\ del' = [del EXCEPT ![k] =
               IF IsOk(r) THEN At(Logged(@, "claim", @.user, r), "delete")
               ELSE [At(Logged(@, "claim", @.user, r), "done") EXCEPT !.ret = r]]
         /\ inbox' = IF IsOk(r) THEN inbox ELSE Append(inbox, DeleteMessage(r, k))
    /\ UNCHANGED << appVars, boot, listing, enr, cnl, clr, ghostVars >>

DeleteAllFingers(k) ==
    /\ del[k].pc = "delete" /\ del[k].kind = "all"
    /\ \E r \in DeleteReplies :
         del' = [del EXCEPT ![k] =
            [At(Logged(@, "delete_enrolled_fingers", @.user, r), "release")
                EXCEPT !.res = r]]
    /\ UNCHANGED << appVars, inbox, boot, listing, enr, cnl, clr, devVars,
                    ghostVars >>

DeleteAllRelease(k) ==
    /\ del[k].pc = "release" /\ del[k].kind = "all"
    /\ \E r \in ReleaseReplies :
         /\ DevRelease
         /\ del' = [del EXCEPT ![k] =
               [At(Logged(@, "release", None, r), "done")
                   EXCEPT !.ret = ResultAnd(del[k].res, r)]]
         /\ inbox' = Append(inbox, DeleteMessage(ResultAnd(del[k].res, r), k))
    /\ UNCHANGED << appVars, boot, listing, enr, cnl, clr, ghostVars >>

\* ------------------------------------------------ the clear-all task
\* clear_all_fingers_dbus (src/src/app/fprint.rs:42-79).
\* A faulty loop head that records a failed claim and goes on with the body.
ClearClaimNoContinue(k) ==
    /\ clr[k].pc = "claim" /\ clr[k].todo # <<>>
    /\ \E r \in ClaimReplies :
         /\ DevClaim(r)
         /\ clr' = [clr EXCEPT ![k] =
               [Logged(@, "claim", Head(@.todo), r) EXCEPT
                   !.user = Head(clr[k].todo),
                   !.todo = Tail(clr[k].todo),
                   !.last_error = IF IsOk(r) THEN clr[k].last_error ELSE r,
                   !.pc = "list"]]
    /\ UNCHANGED << appVars, inbox, boot, listing, enr, cnl, del, ghostVars >>

\* A faulty claim step that keeps the first recorded error.
ClearClaimKeepsFirst(k) ==
    /\ clr[k].pc = "claim" /\ clr[k].todo # <<>>
    /\ \E r \in ClaimReplies :
         /\ DevClaim(r)
         /\ clr' = [clr EXCEPT ![k] =
               [Logged(@, "claim", Head(@.todo), r) EXCEPT
                   !.user = Head(clr[k].todo),
                   !.todo = Tail(clr[k].todo),
                   !.last_error = IF IsOk(r) \/ IsErr(clr[k].last_error)
                                  THEN clr[k].last_error ELSE r,
                   !.pc = IF IsOk(r) THEN "list" ELSE "claim"]]
    /\ UNCHANGED << appVars, inbox, boot, listing, enr, cnl, del, ghostVars >>

\* for username in usernames: device.claim(&username).await, continue on error
ClearClaim(k) ==
    /\ clr[k].pc = "claim" /\ clr[k].todo # <<>>
    /\ \E r \in ClaimReplies :
         /\ DevClaim(r)
         /\ clr' = [clr EXCEPT ![k] =
               [Logged(@, "claim", Head(@.todo), r) EXCEPT
                   !.user = Head(clr[k].todo),
                   !.todo = Tail(clr[k].todo),
                   !.last_error = IF IsOk(r) THEN clr[k].last_error ELSE r,
                   !.pc = IF IsOk(r) THEN "list" ELSE "claim"]]
    /\ UNCHANGED << appVars, inbox, boot, listing, enr, cnl, del, ghostVars >>

\* A faulty listing step that goes to the next username when the listing
\* fails, without releasing.
ClearListLeaving(k, replies) ==
    /\ clr[k].pc = "list"
    /\ \E r \in replies :
         clr' = [clr EXCEPT ![k] =
            [Logged(@, "list_enrolled_fingers", @.user, r) EXCEPT
                !.fingers = IF IsOk(r) THEN r.val ELSE <<>>,
                !.last_error = IF IsOk(r) THEN clr[k].last_error ELSE r,
                !.pc = IF IsErr(r) THEN "claim"
                       ELSE IF r.val # <<>> THEN "delete" ELSE "release"]]
    /\ UNCHANGED << appVars, inbox, boot, listing, enr, cnl, del, devVars,
                    ghostVars >>

\* device.list_enrolled_fingers(&username).await
ClearListOf(k, replies) ==
    /\ clr[k].pc = "list"
    /\ \E r \in replies :
         clr' = [clr EXCEPT ![k] =
            [Logged(@, "list_enrolled_fingers", @.user, r) EXCEPT
                !.fingers = IF IsOk(r) THEN r.val ELSE <<>>,
                !.last_error = IF IsOk(r) THEN clr[k].last_error ELSE r,
                !.pc = IF IsOk(r) /\ r.val # <<>> THEN "delete" ELSE "release"]]
    /\ UNCHANGED << appVars, inbox, boot, listing, enr, cnl, del, devVars,
                    ghostVars >>

ClearList(k) == ClearListOf(k, ListReplies)
ClearListAny(k) == ClearListOf(k, BatchListReplies)

\* A faulty loop over the fingers that stops at the first failed delete.
ClearDeleteStopping(k) ==
    /\ clr[k].pc = "delete"
    /\ \E r \in DeleteReplies :
         clr' = [clr EXCEPT ![k] =
            [Logged(@, "delete_enrolled_finger", Head(@.fingers), r) EXCEPT
                !.fingers = Tail(clr[k].fingers),
                !.last_error = IF IsOk(r) THEN clr[k].last_error ELSE r,
                !.pc = IF Tail(clr[k].fingers) # <<>> /\ IsOk(r)
                       THEN "delete" ELSE "release"]]
    /\ UNCHANGED << appVars, inbox, boot, listing, enr, cnl, del, devVars,
                    ghostVars >>

\* for finger in fingers: device.delete_enrolled_finger(&finger).await
ClearDelete(k) ==
    /\ clr[k].pc = "delete"
    /\ \E r \in DeleteReplies :
         clr' = [clr EXCEPT ![k] =
            [Logged(@, "delete_enrolled_finger", Head(@.fingers), r) EXCEPT
                !.fingers = Tail(clr[k].fingers),
                !.last_error = IF IsOk(r) THEN clr[k].last_error ELSE r,
                !.pc = IF Tail(clr[k].fingers) # <<>> THEN "delete" ELSE "release"]]
    /\ UNCHANGED << appVars, inbox, boot, listing, enr, cnl, del, devVars,
                    ghostVars >>

\* device.release().await, its error recorded
ClearRelease(k) ==
    /\ clr[k].pc = "release"
    /\ \E r \in ReleaseReplies :
         /\ DevRelease
         /\ clr' = [clr EXCEPT ![k] =
               [Logged(@, "release", None, r) EXCEPT
                   !.last_error = IF IsOk(r) THEN clr[k].last_error ELSE r,
                   !.pc = "claim"]]
    /\ UNCHANGED << appVars, inbox, boot, listing, enr, cnl, del, ghostVars >>

\* The loop is over: the last error or Ok(()), and on_clear_device's message.
ClearReturn(k) ==
    /\ clr[k].pc = "claim" /\ clr[k].todo = <<>>
    /\ clr' = [clr EXCEPT ![k].pc = "done"]
    /\ inbox' = Append(inbox,
          Msg("ClearComplete",
              IF IsOk(clr[k].last_error) THEN Ok
              ELSE Err(FromZbus(clr[k].last_error.err)),
              None, "clear", k))
    /\ UNCHANGED << appVars, boot, listing, enr, cnl, del, devVars, ghostVars >>

\* ---------------------------------------------------- specifications
\* The whole program, from its construction.
Next ==
    \/ Connect \/ FindDevice \/ FetchUsers \/ ListFingers
    \/ NavSelect \/ UserSelected \/ Register \/ EnrollStop \/ Delete
    \/ ClearDevice
    \/ HandleConnectionReady \/ HandleUsersFound \/ HandleDeviceFound
    \/ HandleEnrolledFingers \/ HandleOperationError \/ HandleEnrollStart
    \/ HandleEnrollStatus \/ HandleDeleteComplete \/ HandleClearComplete
    \/ EnrollClaim \/ EnrollStages \/ EnrollSendStart \/ EnrollStart
    \/ EnrollSubscribe \/ EnrollReleaseErr \/ EnrollNext \/ EnrollSendStatus
    \/ EnrollSendParseError \/ EnrollRelease \/ EnrollReport
    \/ EmitSignal \/ BadSignal \/ StreamEnd
    \/ \E k \in 1..MaxCancels : CancelStop(k) \/ CancelRelease(k)
    \/ \E k \in 1..MaxDeletes :
          \/ DeleteClaim(k) \/ DeleteFinger(k) \/ DeleteRelease(k)
          \/ DeleteAllClaim(k) \/ DeleteAllFingers(k) \/ DeleteAllRelease(k)
    \/ \E k \in 1..MaxClears :
          \/ ClearClaim(k) \/ ClearList(k) \/ ClearDelete(k) \/ ClearRelease(k)
          \/ ClearReturn(k)

Spec == Init /\ [][Next]_vars

\* The parts of the program.  The state space of the whole is the product of
\* the histories of its operations, so each group of properties is checked
\* over the operations it is about, started in a state the startup reaches
\* (SpecBoot reaches Ready): the connection, the device and the users `found`
\* are there, user number `who` is selected, `page` is the active page and
\* the listing tasks `lists` are still in flight.
ReadyState(found, who, page, lists) ==
    /\ status = fl("status-device-found")
    /\ device_path = TRUE
    /\ connection = TRUE
    /\ busy = FALSE
    /\ enrolling_finger = None
    /\ enroll_progress = 0
    /\ enroll_total_stages = Nothing
    /\ users = found
    /\ selected_user = Some(found[who])
    /\ enrolled_fingers = <<>>
    /\ confirm_clear = FALSE
    /\ active = page
    /\ inbox = <<>>
    /\ boot = [connect |-> FALSE, find |-> FALSE, fetch |-> FALSE, dir |-> NoDir,
               run |-> NoRun]
    /\ listing = lists
    /\ enr = [s \in Sessions |-> NoEnroll]
    /\ cnl = [k \in 1..MaxCancels |-> NoCancel]
    /\ del = [k \in 1..MaxDeletes |-> NoDelete]
    /\ clr = [k \in 1..MaxClears |-> NoClear]
    /\ claimed = FALSE
    /\ dev_enrolling = FALSE
    /\ stream = NoStream
    /\ nsignals = 0
    /\ dlv = [s \in Sessions |-> <<>>]
    /\ reselected = FALSE

\* The ready state with no error conversion under way.
Ready(found, who, page, lists) ==
    /\ ReadyState(found, who, page, lists)
    /\ calc = NoCalc

\* Startup, the users and the navigation: no device operation but the listing.
NextBoot ==
    \/ Connect \/ FindDevice \/ FetchUsers \/ ListFingers
    \/ NavSelect \/ UserSelected
    \/ HandleConnectionReady \/ HandleUsersFound \/ HandleDeviceFound
    \/ HandleEnrolledFingers \/ HandleOperationError

SpecBoot == Init /\ [][NextBoot]_vars

\* The enrollment session: the register and cancel requests, the enrollment
\* and cancel tasks, the device's signals, and the first listing, whose
\* result can arrive during the session.
InitEnroll ==
    Ready(<< UserOption("alice", "Alice A.") >>, 1, "RightIndex", { "alice" })

NextEnroll ==
    \/ Register \/ EnrollStop \/ ListFingers
    \/ HandleEnrolledFingers \/ HandleOperationError \/ HandleEnrollStart
    \/ HandleEnrollStatus
    \/ EnrollClaim \/ EnrollStages \/ EnrollSendStart \/ EnrollStart
    \/ EnrollSubscribe \/ EnrollReleaseErr \/ EnrollNext \/ EnrollSendStatus
    \/ EnrollSendParseError \/ EnrollRelease \/ EnrollReport
    \/ EmitSignal \/ BadSignal \/ StreamEnd
    \/ \E k \in 1..MaxCancels : CancelStop(k) \/ CancelRelease(k)

SpecEnroll == InitEnroll /\ [][NextEnroll]_vars

\* The status stream of one session on its own: the enrollment task, the
\* device's signals with every kind of result code, and the handling of the
\* session's events. No listing is in flight and no cancel is requested.
InitStream == Ready(<< UserOption("alice", "Alice A.") >>, 1, "RightIndex", {})

NextStream ==
    \/ Register
    \/ HandleEnrolledFingers \/ HandleOperationError \/ HandleEnrollStart
    \/ HandleEnrollStatus
    \/ ListFingers
    \/ EnrollClaim \/ EnrollStagesAny \/ EnrollSendStart \/ EnrollStart
    \/ EnrollSubscribe \/ EnrollReleaseErr \/ EnrollNext \/ EnrollSendStatus
    \/ EnrollSendParseError \/ EnrollRelease \/ EnrollReport
    \/ EmitAnySignal \/ BadSignal \/ StreamEnd

SpecStream == InitStream /\ [][NextStream]_vars

\* Deleting starts with two users found, the first selected and the listing
\* of the startup in flight.
InitDelete ==
    Ready(<< UserOption("alice", "Alice A."), UserOption("bob", "") >>, 1,
          "RightIndex", { "alice" })

\* Deleting: the delete request on a finger page and on the page of all
\* fingers, and the listings that enable it.
NextDelete ==
    \/ NavSelect \/ UserSelected \/ Delete \/ ListFingers
    \/ HandleEnrolledFingers \/ HandleOperationError \/ HandleDeleteComplete
    \/ \E k \in 1..MaxDeletes :
          \/ DeleteClaim(k) \/ DeleteFinger(k) \/ DeleteRelease(k)
          \/ DeleteAllClaim(k) \/ DeleteAllFingers(k) \/ DeleteAllRelease(k)

SpecDelete == InitDelete /\ [][NextDelete]_vars

\* Clearing the device for all users.
InitClear ==
    \E found \in UserLists :
       Ready(found, 1, "DeleteAllUsersPrints", { "alice" })

NextClear ==
    \/ ClearDevice \/ ListFingers
    \/ HandleEnrolledFingers \/ HandleOperationError \/ HandleClearComplete
    \/ \E k \in 1..MaxClears :
          \/ ClearClaim(k) \/ ClearListAny(k) \/ ClearDelete(k) \/ ClearRelease(k)
          \/ ClearReturn(k)

SpecClear == InitClear /\ [][NextClear]_vars

\* The three operations that claim the device, the enrollment up to its
\* status stream (the device emits no signal), for two users.  The second
\* user has been selected while the first one's listing was in flight.
InitClaim ==
    Ready(<< UserOption("alice", "Alice A."), UserOption("bob", "") >>, 2,
          "RightIndex", { "alice", "bob" })

NextClaim ==
    \/ Register \/ Delete \/ ClearDevice \/ ListFingers
    \/ HandleEnrolledFingers \/ HandleOperationError \/ HandleEnrollStart
    \/ HandleDeleteComplete \/ HandleClearComplete
    \/ EnrollClaim \/ EnrollStages \/ EnrollSendStart \/ EnrollStart
    \/ EnrollSubscribe \/ EnrollReleaseErr \/ EnrollReport
    \/ \E k \in 1..MaxDeletes :
          DeleteClaim(k) \/ DeleteFinger(k) \/ DeleteRelease(k)
    \/ \E k \in 1..MaxClears :
          \/ ClearClaim(k) \/ ClearList(k) \/ ClearDelete(k) \/ ClearRelease(k)
          \/ ClearReturn(k)

SpecClaim == InitClaim /\ [][NextClaim]_vars

\* The error conversions alone, over every error the bus can deliver, every
\* application error and every chain of notes, in the ready application.
InitError ==
    /\ ReadyState(<< UserOption("alice", "Alice A.") >>, 1, "RightIndex", {})
    /\ \E zerr \in ZbusErrors, err \in AppErrors, todo \in NoteChains :
         calc = Calc(zerr, err, todo)

NextError == MapError \/ ChainMapped \/ AddContext

SpecError == InitError /\ [][NextError]_vars

\* The startup with the three requests for the device arriving at any time,
\* before, during and after the discovery, and the first call of each of
\* their operations.
NextAbsent ==
    \/ Connect \/ FindDevice \/ FetchPlainUsers \/ ListFingers
    \/ HandleConnectionReady \/ HandleUsersFound \/ HandleDeviceFound
    \/ HandleEnrolledFingers \/ HandleOperationError
    \/ NavSelect \/ PressRegister \/ PressDelete \/ PressClear
    \/ EnrollClaim
    \/ \E k \in 1..MaxDeletes : DeleteClaim(k) \/ DeleteAllClaim(k)
    \/ \E k \in 1..MaxClears : ClearClaim(k)

SpecAbsent == Init /\ [][NextAbsent]_vars

\* The confirmation of the clear: the clear requests up to the start of the
\* batch, among page and user selections and a delete that makes the
\* orchestrator busy in between.
InitConfirm ==
    Ready(<< UserOption("alice", "Alice A."), UserOption("bob", "") >>, 1,
          "RightIndex", { "alice" })

NextConfirm ==
    \/ NavSelect \/ UserSelected \/ ClearDevice \/ Delete \/ ListFingers
    \/ HandleEnrolledFingers \/ HandleOperationError \/ HandleDeleteComplete
    \/ \E k \in 1..MaxDeletes :
          DeleteClaim(k) \/ DeleteFinger(k) \/ DeleteRelease(k)

SpecConfirm == InitConfirm /\ [][NextConfirm]_vars

\* The finger listings of two users whose prints differ: the listing of the
\* startup is in flight, the user selects users and pages.
InitListing ==
    Ready(<< UserOption("alice", "Alice A."), UserOption("bob", "") >>, 1,
          "RightIndex", { "alice" })

NextListing ==
    \/ UserSelected \/ NavSelect \/ ListFingersOfUser
    \/ HandleEnrolledFingers \/ HandleOperationError

SpecListing == InitListing /\ [][NextListing]_vars

\* The pages: every page of the nav bar can be selected, and the register
\* and delete requests take the finger of the active page up to the claim of
\* their operations.
InitPages == Ready(<< UserOption("alice", "Alice A.") >>, 1, "RightIndex", { "alice" })

NextPages ==
    \/ NavSelectAny \/ Register \/ Delete \/ ListFingers
    \/ HandleEnrolledFingers \/ HandleOperationError
    \/ EnrollClaim \/ EnrollReport
    \/ \E k \in 1..MaxDeletes : DeleteClaim(k) \/ DeleteAllClaim(k)

SpecPages == InitPages /\ [][NextPages]_vars

\* The startup's user listing, one remote call at a time, over listings
\* longer than the buffer.  The remote calls return and the runtime polls
\* the task's future when they do, so the steps of the buffer are not
\* put off for ever.
NextFetch ==
    \/ Connect \/ HandleConnectionReady \/ HandleOperationError
    \/ FetchList \/ FetchStart \/ FetchReturn \/ FetchYield \/ FetchSend
    \/ HandleUsersFound

SpecFetch ==
    Init /\ [][NextFetch]_vars /\ WF_boot(FetchStart \/ FetchReturn \/ FetchYield)

\* ---------------------------------------------------------- properties
\* The operations of a log, in order, and how often one occurs in it.
Ops(log) == [i \in 1..Len(log) |-> log[i].op]
Count(log, op) == Cardinality({ i \in 1..Len(log) : log[i].op = op })
IsPrefix(p, q) == Len(p) <= Len(q) /\ \A i \in 1..Len(p) : p[i] = q[i]
Has(seq, x) == \E i \in 1..Len(seq) : seq[i] = x

\* The task's first call is its claim, and it succeeded or failed.
ClaimOk(log) == log # <<>> /\ log[1].op = "claim" /\ IsOk(log[1].reply)
ClaimFailed(log) == log # <<>> /\ log[1].op = "claim" /\ IsErr(log[1].reply)

\* The cancel tasks of session s, and the release calls issued for s by its
\* enrollment task and its cancel tasks together.
CancelsOf(s) == { k \in 1..MaxCancels : cnl[k].pc # "none" /\ cnl[k].sess = s }
Releases(s) ==
    Count(enr[s].calls, "release")
    + Cardinality({ k \in CancelsOf(s) : Count(cnl[k].calls, "release") > 0 })

\* Session s is over: its enrollment task has returned or has been dropped,
\* and every cancel task of it has finished.
SessionOver(s) ==
    /\ enr[s].pc \in { "pending", "dropped" }
    /\ \A k \in CancelsOf(s) : cnl[k].pc = "done"

Idle == enrolling_finger = None /\ ~busy

\* C1: in a session whose claim succeeded, release is issued exactly once,
\* counting the enrollment task and the cancel tasks together: never more
\* than once, and once when the session is over.
C1_ReleaseExactlyOnce ==
    \A s \in Sessions :
      ClaimOk(enr[s].calls) =>
        /\ Releases(s) <= 1
        /\ SessionOver(s) => Releases(s) = 1

\* C2: in delete_fingerprint_dbus, when the claim succeeded and the delete
\* call failed, release is issued at most once, exactly once when the
\* function has returned, and the function returns the delete call's error
\* whatever the release call answered.
C2_DeleteErrorWins ==
    \A k \in 1..MaxDeletes :
      LET c == del[k].calls IN
      (del[k].kind = "one" /\ ClaimOk(c) /\ Len(c) >= 2 /\ IsErr(c[2].reply)) =>
        /\ c[2].op = "delete_enrolled_finger"
        /\ Count(c, "release") <= 1
        /\ del[k].pc = "done" =>
             /\ Count(c, "release") = 1
             /\ del[k].ret = c[2].reply
             /\ Has(inbox, DeleteMessage(c[2].reply, k))

\* C2's case: the delete call and the release call have both failed.
C2_Witness ==
    \E k \in 1..MaxDeletes :
      /\ del[k].kind = "one" /\ del[k].pc = "done"
      /\ Len(del[k].calls) = 3
      /\ IsErr(del[k].calls[2].reply) /\ IsErr(del[k].calls[3].reply)

\* C3: in delete_fingerprint_dbus the calls are issued in the order claim,
\* delete, release, and a run that returned Ok issued exactly these three,
\* each answered Ok.
C3_ClaimDeleteRelease ==
    \A k \in 1..MaxDeletes :
      (del[k].kind = "one" /\ del[k].pc \notin { "none", "gone" }) =>
        /\ IsPrefix(Ops(del[k].calls),
                    << "claim", "delete_enrolled_finger", "release" >>)
        /\ (del[k].pc = "done" /\ IsOk(del[k].ret)) =>
             /\ Ops(del[k].calls) = << "claim", "delete_enrolled_finger", "release" >>
             /\ \A i \in 1..3 : IsOk(del[k].calls[i].reply)

\* C3's case: a run of delete_fingerprint_dbus in which all three calls
\* succeeded.
C3_Witness ==
    \E k \in 1..MaxDeletes :
      /\ del[k].kind = "one" /\ del[k].pc = "done" /\ IsOk(del[k].ret)
      /\ Count(del[k].calls, "release") = 1

\* C4: after a failed claim the body is not run: delete_fingerprint_dbus
\* issues no further call, enroll_fingerprint_process issues no further call
\* and sends no EnrollStart, and clear_all_fingers_dbus's next call, if any,
\* is the claim for the next username.
C4_NoBodyAfterFailedClaim ==
    /\ \A k \in 1..MaxDeletes :
         (del[k].kind = "one" /\ ClaimFailed(del[k].calls)) =>
            Len(del[k].calls) = 1
    /\ \A s \in Sessions :
         ClaimFailed(enr[s].calls) =>
            /\ Len(enr[s].calls) = 1
            /\ ~Has(enr[s].sent, "EnrollStart")
    /\ \A k \in 1..MaxClears :
         \A i \in 1..Len(clr[k].calls) :
            LET c == clr[k].calls IN
            (c[i].op = "claim" /\ IsErr(c[i].reply) /\ i < Len(c)) =>
               /\ c[i + 1].op = "claim"
               /\ c[i + 1].arg # c[i].arg

\* C4's case: the three kinds of task have each had a claim fail, and each
\* has gone on: the delete and the enrollment to their end, the clear-all
\* to the next username.
C4_Witness ==
    /\ \E k \in 1..MaxDeletes :
         del[k].kind = "one" /\ ClaimFailed(del[k].calls) /\ del[k].pc = "done"
    /\ \E s \in Sessions :
         ClaimFailed(enr[s].calls) /\ Has(enr[s].sent, "OperationError")
    /\ \E k \in 1..MaxClears :
         /\ ClaimFailed(clr[k].calls)
         /\ Len(clr[k].calls) >= 2

\* C5: when the handling of an OperationError ends an enrollment, the
\* orchestrator being Idle from then on, the device holds no claim.
C5_FailureLeavesNoClaim ==
    [][(HandleOperationError /\ enrolling_finger # None) => (Idle' /\ ~claimed')]_vars

\* C6: a cancel task started while the status stream was live ends with the
\* Cancelled event (its release answered Ok), and the session sees exactly
\* one release.
C6_CancelYieldsCancelled ==
    \A k \in 1..MaxCancels :
      (cnl[k].live /\ cnl[k].pc = "done") =>
        /\ IsOk(cnl[k].calls[2].reply)
        /\ Releases(cnl[k].sess) <= 1
        /\ SessionOver(cnl[k].sess) => Releases(cnl[k].sess) = 1

\* C7: the cancel task issues enroll_stop first and release second, and goes
\* on to release whatever enroll_stop answered.
C7_StopThenRelease ==
    \A k \in 1..MaxCancels :
      cnl[k].pc # "none" =>
        /\ IsPrefix(Ops(cnl[k].calls), << "enroll_stop", "release" >>)
        /\ Len(cnl[k].calls) = CASE cnl[k].pc = "stop" -> 0
                                 [] cnl[k].pc = "release" -> 1
                                 [] cnl[k].pc = "done" -> 2

\* C7's case: enroll_stop failed and release was issued after it.
C7_Witness ==
    \E k \in 1..MaxCancels :
      /\ cnl[k].pc = "done"
      /\ IsErr(cnl[k].calls[1].reply)
      /\ cnl[k].calls[2].op = "release"

\* The enroll_start call of a log failed.
StartFailed(log) ==
    \E i \in 1..Len(log) : log[i].op = "enroll_start" /\ IsErr(log[i].reply)

Delivered(s, src, kind) ==
    Cardinality({ i \in 1..Len(dlv[s]) :
                    dlv[s][i].src = src /\ dlv[s][i].kind = kind })

C10_NothingAfterTerminal ==
    \A s \in Sessions :
      \A i \in 1..Len(dlv[s]) :
        dlv[s][i].kind = "terminal" =>
          \A j \in (i + 1)..Len(dlv[s]) :
            dlv[s][j].kind \notin { "progress", "terminal", "error" }


\* The place of the started event among the handled events of session s, 0
\* when it has not been handled.
StartedAt(s) ==
    IF \E i \in 1..Len(dlv[s]) : dlv[s][i].kind = "started"
    THEN CHOOSE i \in 1..Len(dlv[s]) : dlv[s][i].kind = "started"
    ELSE 0

\* The result codes of the status events of session s handled after place i.
CodesSince(s, i) ==
    [j \in 1..(Len(dlv[s]) - i) |-> dlv[s][i + j].code]

\* How many stage-passed events of session s were handled after place i.
PassedSince(s, i) ==
    Cardinality({ j \in (i + 1)..Len(dlv[s]) :
                    dlv[s][j].code = "enroll-stage-passed" })

HandledStatus(s) ==
    LET h == SelectSeq(dlv[s], LAMBDA t : t.src = "enroll"
                                 /\ t.kind \in { "progress", "terminal" })
    IN  [i \in 1..Len(h) |-> << h[i].code, h[i].kind = "terminal" >>]

\* The status events of that task still waiting in the queue of update.
QueuedStatus(s) ==
    LET q == SelectSeq(inbox, LAMBDA m : m.src = "enroll" /\ m.sess = s
                                 /\ m.type = "EnrollStatus")
    IN  [i \in 1..Len(q) |-> << q[i].a, q[i].b >>]

\* C12: the status events the enrollment task of a session has emitted
\* (handled ones first, then the queued ones) are the status signals it has
\* taken from the stream, one event per signal and in the order of arrival;
\* only the signal taken last can be without its event, while the task is
\* about to send it or when the task was dropped at that point.
C12_OneEventPerSignal ==
    \A s \in Sessions :
      LET emitted == HandledStatus(s) \o QueuedStatus(s)
          got == enr[s].got
      IN  /\ IsPrefix(emitted, got)
          /\ \/ Len(emitted) = Len(got)
             \/ /\ Len(emitted) + 1 = Len(got)
                /\ enr[s].pc \in { "send_status", "dropped" }

C12_Witness ==
    /\ enr[1].got = << << "enroll-retry-scan", FALSE >>,
                      << "enroll-stage-passed", FALSE >>,
                      << "enroll-completed", TRUE >> >>
    /\ HandledStatus(1) = enr[1].got

\* The enrollment task of this log sent the error of a signal that did not
\* parse (the wrapper's error comes with a failed return value instead).
ParseFailed(e) == Has(e.sent, "OperationError") /\ IsOk(e.ret)

\* C13: after a status signal that does not parse, the enrollment task has
\* sent exactly one OperationError, takes no further signal from the stream,
\* and, unless release is its very next call, has issued release once.
C13_ParseFailureReleases ==
    \A s \in Sessions :
      ParseFailed(enr[s]) =>
        /\ Cardinality({ i \in 1..Len(enr[s].sent) :
                            enr[s].sent[i] = "OperationError" }) = 1
        /\ enr[s].pc \notin { "next", "send_status", "send_parse_error" }
        /\ enr[s].pc # "release" => Count(enr[s].calls, "release") = 1

\* C14: when the enrollment task of a claimed session has left its loop and
\* returned, and update has no message left to handle, the session is
\* released and the orchestrator is Idle.
C14_LoopEndReleasedAndIdle ==
    \A s \in Sessions :
      (ClaimOk(enr[s].calls) /\ enr[s].pc = "pending" /\ inbox = <<>>) =>
        /\ Count(enr[s].calls, "release") = 1
        /\ Idle

\* The task of this log has asked for the number of stages (its second call).
StagesAsked(e) == Len(e.calls) >= 2 /\ e.calls[2].op = "num_enroll_stages"

\* C15: in enroll_fingerprint_process, whatever the stage query answered,
\* the session goes on: the started event carries no count when the query
\* failed or answered zero or less, and n when it answered n > 0; the event
\* is sent before any other call, the call after it is enroll_start, and the
\* handled event leaves the carried count in enroll_total_stages.
C15_StageCountOptional ==
    \A s \in Sessions :
      StagesAsked(enr[s]) =>
        LET r == enr[s].calls[2].reply
            carried == IF IsErr(r) THEN Nothing
                       ELSE IF r.val <= 0 THEN Nothing ELSE Some(r.val)
        IN  /\ enr[s].total = carried
            /\ \A i \in 1..Len(inbox) :
                 (inbox[i].type = "EnrollStart" /\ inbox[i].sess = s)
                   => inbox[i].a = carried
            /\ (s = Started(enr) /\ StartedAt(s) # 0)
                 => enroll_total_stages = carried
            /\ Len(enr[s].calls) >= 3 =>
                 /\ enr[s].calls[3].op = "enroll_start"
                 /\ enr[s].sent # <<>> /\ enr[s].sent[1] = "EnrollStart"
            /\ enr[s].pc \in { "pending", "report" } => Len(enr[s].calls) >= 3

C15_Witness ==
    /\ StagesAsked(enr[1])
    /\ enr[1].calls[2].reply = OkVal(-1)
    /\ Len(enr[1].calls) >= 3 /\ enr[1].calls[3].op = "enroll_start"
    /\ StartedAt(1) # 0
    /\ enroll_total_stages = Nothing

\* C16: the handling of an enrollment status event puts a listing of the
\* selected user's fingers in flight when the event is "enroll-completed"
\* with done, and leaves the listings in flight as they are for every other
\* status event (failed, cancelled, or not done).
C16_RefreshIffCompleted ==
    [][HandleEnrollStatus =>
         IF Head(inbox).a = "enroll-completed" /\ Head(inbox).b
         THEN /\ selected_user # Nothing
              /\ listing' = listing \cup { Get(selected_user).username }
         ELSE listing' = listing]_vars

\* The first listing has been handled and the refresh after the completed
\* enrollment is in flight.
C16_Witness ==
    /\ enrolled_fingers = << "right-index-finger" >>
    /\ dlv[1] # <<>>
    /\ dlv[1][Len(dlv[1])].code = "enroll-completed"
    /\ dlv[1][Len(dlv[1])].kind = "terminal"
    /\ listing = { "alice" }

\* Session s has been started by a register request and no terminal event
\* and no error of it has been handled yet.
LiveSession(s) ==
    /\ enr[s].pc # "none"
    /\ \A i \in 1..Len(dlv[s]) : dlv[s][i].kind \notin { "terminal", "error" }

\* C17: while a session is live, from its register request until its
\* terminal event or its error is handled, no step starts an enrollment
\* task, a delete or a clear-all.
C17_NothingStartsDuringSession ==
    [][(\E s \in Sessions : LiveSession(s)) =>
         /\ Started(enr') = Started(enr)
         /\ Started(del') = Started(del)
         /\ Started(clr') = Started(clr)]_vars

\* A claim of this log was rejected with AlreadyInUse.
RejectedInUse(log) ==
    \E i \in 1..Len(log) :
       log[i].op = "claim" /\ log[i].reply = Err(E_AlreadyInUse)

\* The messages of task id of kind src that update has not handled yet.
ReportsOf(src, id) ==
    SelectSeq(inbox, LAMBDA m : m.src = src /\ m.sess = id)

\* The reply of the call of this log that failed last.
LastFailure(log) ==
    LET failed == { i \in 1..Len(log) : IsErr(log[i].reply) }
    IN  log[CHOOSE i \in failed : \A j \in failed : j <= i].reply

\* enroll: the rejected claim is the task's only call, and the task reports
\* AlreadyInUse and nothing else.
InUseEndsEnroll ==
    \A s \in Sessions :
      RejectedInUse(enr[s].calls) =>
        /\ Len(enr[s].calls) = 1
        /\ enr[s].pc \in { "report", "pending", "dropped" }
        /\ enr[s].pc = "pending" => enr[s].sent = << "OperationError" >>
        /\ \A i \in 1..Len(ReportsOf("enroll", s)) :
              /\ ReportsOf("enroll", s)[i].type = "OperationError"
              /\ ReportsOf("enroll", s)[i].a = FromZbus(E_AlreadyInUse)

\* delete_one: the rejected claim is the task's only call, the task is over
\* and its one report is AlreadyInUse.
InUseEndsDelete ==
    \A k \in 1..MaxDeletes :
      RejectedInUse(del[k].calls) =>
        /\ Len(del[k].calls) = 1
        /\ del[k].pc = "done"
        /\ ReportsOf("delete", k) =
              << Msg("OperationError", FromZbus(E_AlreadyInUse), None, "delete", k) >>

\* clear_all_users never claims again for a username.
ClearClaimsOnce ==
    \A k \in 1..MaxClears :
      RejectedInUse(clr[k].calls) =>
        Count(clr[k].calls, "claim") + Len(clr[k].todo) = Len(users)

\* update clears busy when it handles the report of a failed operation.
ReportClearsBusy ==
    [][(/\ HandleOperationError \/ HandleClearComplete
        /\ Head(inbox).src \in { "enroll", "delete", "clear" })
         => busy' = FALSE]_vars

\* C18 as stated: after a claim rejected with AlreadyInUse, enroll,
\* delete_one and clear_all_users each end with AlreadyInUse as the error
\* reported to update.
C18_AlreadyInUseReported ==
    /\ InUseEndsEnroll
    /\ InUseEndsDelete
    /\ \A k \in 1..MaxClears :
         (RejectedInUse(clr[k].calls) /\ clr[k].pc = "done") =>
           ReportsOf("clear", k) =
             << Msg("ClearComplete", Err(FromZbus(E_AlreadyInUse)), None, "clear", k) >>

\* C18, amended: after a claim rejected with AlreadyInUse no task claims
\* again for the same user; enroll and delete_one end at once and report
\* AlreadyInUse; clear_all_users goes on with the next usernames and reports
\* the error of the call that failed last; handling the report clears busy.
C18_AlreadyInUseEndsOperation ==
    /\ [](/\ InUseEndsEnroll
          /\ InUseEndsDelete
          /\ ClearClaimsOnce
          /\ \A k \in 1..MaxClears :
               (RejectedInUse(clr[k].calls) /\ clr[k].pc = "done") =>
                 ReportsOf("clear", k) =
                   << Msg("ClearComplete",
                          Err(FromZbus(LastFailure(clr[k].calls).err)),
                          None, "clear", k) >>)
    /\ ReportClearsBusy

\* A batch over two users: the first claim was rejected with AlreadyInUse,
\* a later call failed otherwise, and the batch reports the later error.
C18_Witness ==
    /\ clr[1].pc = "done"
    /\ Len(clr[1].calls) >= 3
    /\ clr[1].calls[1].reply = Err(E_AlreadyInUse)
    /\ clr[1].calls[2].reply = Ok
    /\ LastFailure(clr[1].calls) # Err(E_AlreadyInUse)
    /\ ReportsOf("clear", 1) # <<>>
    /\ ReportsOf("clear", 1)[1].a # Err(FromZbus(E_AlreadyInUse))

\* The usernames on_clear_device gives to clear_all_fingers_dbus.
Usernames == [i \in 1..Len(users) |-> users[i].username]

\* The arguments of the claim calls of a log, in order.
ClaimedFor(log) ==
    LET c == SelectSeq(log, LAMBDA x : x.op = "claim")
    IN  [i \in 1..Len(c) |-> c[i].arg]

\* C19: in clear_all_fingers_dbus the claims made so far are for the first
\* usernames of the input list, in list order, whatever the earlier calls
\* returned, and all of them when the batch is over; after a listing that
\* returned fingers, the next calls are one delete per finger, in the
\* listing's order, whatever the earlier deletes returned, and then release.
C19_BatchContinuesOnError ==
    \A k \in 1..MaxClears :
      clr[k].pc \notin { "none", "gone" } =>
        LET log == clr[k].calls IN
        /\ IsPrefix(ClaimedFor(log), Usernames)
        /\ Len(ClaimedFor(log)) + Len(clr[k].todo) = Len(users)
        /\ clr[k].pc = "done" => ClaimedFor(log) = Usernames
        /\ \A i \in 1..Len(log) :
             (log[i].op = "list_enrolled_fingers" /\ IsOk(log[i].reply)) =>
               LET fingers == log[i].reply.val IN
               /\ \A j \in 1..Len(fingers) :
                    IF i + j <= Len(log)
                    THEN /\ log[i + j].op = "delete_enrolled_finger"
                         /\ log[i + j].arg = fingers[j]
                    ELSE clr[k].pc = "delete"
               /\ IF i + Len(fingers) + 1 <= Len(log)
                  THEN log[i + Len(fingers) + 1].op = "release"
                  ELSE clr[k].pc \in { "delete", "release" }

\* A batch over alice and bob is over: alice's claim failed, bob was claimed,
\* his listing returned two fingers, the first delete failed and the second
\* was made.
C19_Witness ==
    /\ clr[1].pc = "done"
    /\ Len(clr[1].calls) = 6
    /\ ClaimedFor(clr[1].calls) = << "alice", "bob" >>
    /\ IsErr(clr[1].calls[1].reply)
    /\ clr[1].calls[3].reply = OkVal(<< "right-index-finger", "left-thumb" >>)
    /\ clr[1].calls[4].op = "delete_enrolled_finger"
    /\ IsErr(clr[1].calls[4].reply)
    /\ clr[1].calls[5].op = "delete_enrolled_finger"
    /\ clr[1].calls[5].arg = "left-thumb"
    /\ clr[1].calls[6].op = "release"

\* What clear_all_fingers_dbus returns after the calls of this log: Ok when
\* none failed, else the reply of the call that failed last.
BatchResult(log) ==
    IF \A i \in 1..Len(log) : IsOk(log[i].reply) THEN Ok ELSE LastFailure(log)

\* C20: in clear_all_fingers_dbus the recorded error is at every moment the
\* error of the call that failed last, none when no claim, list, delete or
\* release failed; the batch returns Ok exactly when none failed and that
\* last error otherwise, and this result is what ClearComplete carries.
C20_LastErrorWins ==
    \A k \in 1..MaxClears :
      clr[k].pc \notin { "none", "gone" } =>
        /\ clr[k].last_error = BatchResult(clr[k].calls)
        /\ clr[k].pc = "done" =>
              ReportsOf("clear", k) =
                << Msg("ClearComplete",
                       IF IsOk(BatchResult(clr[k].calls)) THEN Ok
                       ELSE Err(FromZbus(BatchResult(clr[k].calls).err)),
                       None, "clear", k) >>

\* The batch over alice and bob where alice's claim fails and bob is
\* claimed, listed, deleted and released cleanly: the result is alice's
\* claim error.
C20_Witness ==
    /\ clr[1].pc = "done"
    /\ clr[1].calls =
          << Call("claim", "alice", Err(E_AlreadyInUse)),
             Call("claim", "bob", Ok),
             Call("list_enrolled_fingers", "bob", OkVal(<< "right-index-finger" >>)),
             Call("delete_enrolled_finger", "right-index-finger", Ok),
             Call("release", None, Ok) >>
    /\ ReportsOf("clear", 1) =
          << Msg("ClearComplete", Err(FromZbus(E_AlreadyInUse)), None, "clear", 1) >>

\* The place of the first claim after place i in a log, one past its end
\* when there is none.
NextClaimAfter(log, i) ==
    LET later == { j \in (i + 1)..Len(log) : log[j].op = "claim" }
    IN  IF later = {} THEN Len(log) + 1
        ELSE CHOOSE j \in later : \A h \in later : j <= h

\* C21: in clear_all_fingers_dbus, between a successful claim and the next
\* claim (or the return) release is issued at most once, and exactly once
\* and as the last call before the next claim or the return, after the
\* listing and the deletes of that user, whatever these returned; so when
\* the batch has returned every claim it took has had its release.
C21_BatchReleasesEachClaim ==
    \A k \in 1..MaxClears :
      clr[k].pc \notin { "none", "gone" } =>
        LET log == clr[k].calls IN
        /\ \A i \in 1..Len(log) :
             (log[i].op = "claim" /\ IsOk(log[i].reply)) =>
               LET n == NextClaimAfter(log, i)
                   rel == { j \in (i + 1)..(n - 1) : log[j].op = "release" }
               IN  /\ Cardinality(rel) <= 1
                   /\ rel # {} => rel = { n - 1 }
                   /\ (n <= Len(log) \/ clr[k].pc \in { "claim", "done" }) =>
                        /\ rel = { n - 1 }
                        /\ n - 1 > i + 1
                        /\ log[i + 1].op = "list_enrolled_fingers"

\* A batch is over in which the listing of a claimed user failed and the
\* user was released all the same.
C21_Witness ==
    /\ clr[1].pc = "done"
    /\ \E i \in 1..Len(clr[1].calls) :
         /\ i + 2 <= Len(clr[1].calls)
         /\ clr[1].calls[i].op = "claim" /\ IsOk(clr[1].calls[i].reply)
         /\ clr[1].calls[i + 1].op = "list_enrolled_fingers"
         /\ IsErr(clr[1].calls[i + 1].reply)
         /\ clr[1].calls[i + 2].op = "release"

\* The calls of a delete task are made with the task's own user and finger.
DeleteCallsFor(d) ==
    \A i \in 1..Len(d.calls) :
       CASE d.calls[i].op = "claim" -> d.calls[i].arg = d.user
         [] d.calls[i].op = "delete_enrolled_finger" ->
               d.kind = "one" /\ d.calls[i].arg = d.finger
         [] d.calls[i].op = "delete_enrolled_fingers" ->
               d.kind = "all" /\ d.calls[i].arg = d.user
         [] OTHER -> d.calls[i].op = "release"

\* C22: a delete request starts one task for the selected user's username:
\* for exactly the page's finger on a finger page (claim, delete that
\* finger, release) and for all fingers of the user on the page that names
\* no finger (claim, delete all, release); the task's report is sent only
\* after its release, or after its claim failed.
C22_DeleteRunsForPageAndUser ==
    /\ [](\A k \in 1..MaxDeletes :
            del[k].pc \notin { "none", "gone" } =>
              /\ DeleteCallsFor(del[k])
              /\ IsPrefix(Ops(del[k].calls),
                    IF del[k].kind = "one"
                    THEN << "claim", "delete_enrolled_finger", "release" >>
                    ELSE << "claim", "delete_enrolled_fingers", "release" >>)
              /\ ReportsOf("delete", k) # <<>> =>
                    /\ Len(ReportsOf("delete", k)) = 1
                    /\ ReportsOf("delete", k)[1].type
                          \in { "DeleteComplete", "OperationError" }
                    /\ \/ ClaimFailed(del[k].calls) /\ Len(del[k].calls) = 1
                       \/ Ops(del[k].calls)[Len(del[k].calls)] = "release")
    /\ [][Delete =>
            LET d == del'[Started(del) + 1] IN
            /\ Started(del') = Started(del) + 1
            /\ d.user = Get(selected_user).username
            /\ IF as_finger_id(active) # None
               THEN d.kind = "one" /\ d.finger = as_finger_id(active)
               ELSE d.kind = "all"]_vars

\* With bob selected on the page that names no finger, the task deleted all
\* of bob's fingers, released, and its report waits to be handled.
C22_Witness ==
    /\ del[1].kind = "all" /\ del[1].user = "bob" /\ del[1].pc = "done"
    /\ Ops(del[1].calls) = << "claim", "delete_enrolled_fingers", "release" >>
    /\ del[1].calls[2].arg = "bob"
    /\ ReportsOf("delete", 1) # <<>>

\* The tag a bus error is to be converted to, written out name by name, or
\* None for an error that is to become Unknown.
NamedTag(e) ==
    CASE ~e.method -> None
      [] e.name = "net.reactivated.Fprint.Error.PermissionDenied" -> "PermissionDenied"
      [] e.name = "net.reactivated.Fprint.Error.AlreadyInUse" -> "AlreadyInUse"
      [] e.name = "net.reactivated.Fprint.Error.Internal" -> "Internal"
      [] e.name = "net.reactivated.Fprint.Error.NoEnrolledPrints" -> "NoEnrolledPrints"
      [] e.name = "net.reactivated.Fprint.Error.ClaimDevice" -> "ClaimDevice"
      [] e.name = "net.reactivated.Fprint.Error.PrintsNotDeleted" -> "PrintsNotDeleted"
      [] e.name = "net.reactivated.Fprint.Error.Timeout" -> "Timeout"
      [] e.name = "net.reactivated.Fprint.Error.DeviceNotFound" -> "DeviceNotFound"
      [] OTHER -> None

\* C23: the conversion of a bus error gives a result for every error: a
\* method error named by one of the eight recognized identifiers becomes the
\* tag of that name, with no text; every other method error and every error
\* that is not a method error becomes Unknown carrying the text of the
\* error; the result is never ConnectDbus.
C23_MapErrorTotal ==
    calc.mapped # Nothing =>
        LET e == calc.zerr
            r == Get(calc.mapped)
        IN /\ r.tag \in KnownErrors \cup { "Unknown" }
           /\ r.tag # "ConnectDbus"
           /\ NamedTag(e) # None => r = AppErr(NamedTag(e), <<>>)
           /\ NamedTag(e) = None => r = AppErr("Unknown", <<e.name>>)

\* An error that is not a method error and whose text is a recognized name
\* has been converted, and so has a method error of an unrecognized name.
C23_Witness ==
    /\ calc.mapped # Nothing
    /\ ~calc.zerr.method
    /\ calc.zerr.name = "net.reactivated.Fprint.Error.Timeout"
    /\ Get(calc.mapped).tag = "Unknown"

\* The text "n_k: ... : n_1: m" that the notes n_1 .. n_k, applied in this
\* order, are to make of the text m.
RECURSIVE Noted(_, _)
Noted(notes, m) ==
    IF notes = <<>> THEN m
    ELSE << notes[Len(notes)], ": " >> \o Noted(SubSeq(notes, 1, Len(notes) - 1), m)

\* C24: with_context leaves an error of every tag other than Unknown as it
\* was, ConnectDbus with its detail included; of Unknown(m) and a note it
\* makes Unknown("note: m"), and applied with n1 and then n2 it makes
\* Unknown("n2: n1: m").
C24_ContextOnlyOnUnknown ==
    /\ calc.err.tag # "Unknown" => calc.out = calc.err
    /\ calc.err.tag = "Unknown" =>
          /\ calc.out = AppErr("Unknown", Noted(calc.applied, calc.err.msg))
          /\ Len(calc.applied) = 1 =>
                calc.out.msg = << calc.applied[1], ": " >> \o calc.err.msg
          /\ Len(calc.applied) = 2 =>
                calc.out.msg = << calc.applied[2], ": ", calc.applied[1], ": " >>
                                  \o calc.err.msg

\* Two different notes have been applied to an Unknown error.
C24_Witness ==
    /\ calc.err = AppErr("Unknown", << "Some error" >>)
    /\ calc.applied = << "Failed to list fingers", "Context" >>
    /\ calc.out.msg = << "Context", ": ", "Failed to list fingers", ": ", "Some error" >>

\* A note has been applied to a connection error, which keeps its detail.
C24_WitnessConnect ==
    /\ calc.err.tag = "ConnectDbus"
    /\ Len(calc.applied) = 1
    /\ calc.out = calc.err


\* The errors that the discovery task has reported and update has not yet
\* handled.
DiscoveryReports ==
    { inbox[i].a : i \in { j \in 1..Len(inbox) :
                             /\ inbox[j].src = "find"
                             /\ inbox[j].type = "OperationError" } }

\* C25, as stated: every failure of the discovery is reported as
\* DeviceNotFound, whatever the remote error was.
C25_AlwaysDeviceNotFound ==
    \A e \in DiscoveryReports : e = AppErr("DeviceNotFound", <<>>)

\* C25, as the code has it: a failed discovery never reports Unknown; a
\* remote error that is not one of the eight recognized errors is reported
\* as DeviceNotFound, and a recognized one under its own tag.
C25_DiscoveryNeverUnknown ==
    \A e \in DiscoveryReports :
        /\ e.tag \in KnownErrors
        /\ e.msg = <<>>
        /\ NamedTag(calc.zerr) = None => e.tag = "DeviceNotFound"
        /\ NamedTag(calc.zerr) # None => e.tag = NamedTag(calc.zerr)

\* The manager has answered that there is no default device, an error that
\* the mapper does not recognize, and DeviceNotFound is reported.
C25_Witness ==
    /\ calc.zerr = E_NoSuchDevice
    /\ calc.mapped # Nothing /\ Get(calc.mapped).tag = "Unknown"
    /\ AppErr("DeviceNotFound", <<>>) \in DiscoveryReports


\* The discovery has failed: its task has reported an error.
DiscoveryFailed == boot.find = FALSE /\ calc.mapped # Nothing

\* The calls to the device made by the enrollments, deletes and batches.
DeviceCalls ==
    UNION { { << "enroll", s, i >> : i \in 1..Len(enr[s].calls) } : s \in Sessions }
      \cup UNION { { << "delete", k, i >> : i \in 1..Len(del[k].calls) }
                      : k \in 1..MaxDeletes }
      \cup UNION { { << "clear", k, i >> : i \in 1..Len(clr[k].calls) }
                      : k \in 1..MaxClears }

\* C26: after the discovery has failed the device reference is absent, and
\* while the device reference is absent no enroll, delete or clear-all
\* request has made a task or a call to the device, whenever the request
\* arrives.
C26_NoDeviceNoCalls ==
    /\ DiscoveryFailed => ~device_path
    /\ ~device_path =>
          /\ DeviceCalls = {}
          /\ ~claimed
          /\ \A s \in Sessions : enr[s].pc = "none"
          /\ \A k \in 1..MaxDeletes : del[k].pc = "none"
          /\ \A k \in 1..MaxClears : clr[k].pc = "none"

\* The discovery has failed, its error has been handled so that busy is
\* off, a finger page is active and a user is selected: a request finds
\* everything but the device.
C26_Witness ==
    /\ DiscoveryFailed
    /\ ~device_path /\ connection
    /\ ~busy
    /\ active = "RightIndex"
    /\ selected_user # Nothing
    /\ confirm_clear


\* The places of the list `found` that hold the username of the selection.
SameName(found, sel) ==
    { i \in 1..Len(found) : sel # Nothing /\ found[i].username = Get(sel).username }

\* C27: when a refreshed list that is not empty is handled, the selection
\* becomes the entry of the list with the username selected before, with the
\* display name the list has for it; without such an entry, or without a
\* selection, it becomes the first entry of the list.
C27_ReselectNonEmpty ==
    [][ (HandleUsersFound /\ Head(inbox).a # <<>>) =>
          LET found == Head(inbox).a
              same == SameName(found, selected_user)
          IN  /\ users' = found
              /\ IF same # {}
                 THEN \E i \in same : selected_user' = Some(found[i])
                 ELSE selected_user' = Some(found[1]) ]_vars

\* The invoking user was selected under the display name of the password
\* database, the refreshed list has the same username in second place with
\* another display name, and the selection is now that entry.
C27_Witness ==
    /\ ~boot.fetch /\ Len(boot.dir.paths) = 2
    /\ users = << UserOption("bob", ""), UserOption("alice", "Alice A.") >>
    /\ selected_user = Some(UserOption("alice", "Alice A."))
    /\ selected_user # Some(OsUser)

\* C28: when an empty refreshed list is handled the selection becomes
\* absent, whatever it was, and after every refresh the selected user, when
\* there is one, is an entry of the user list.
C28_ReselectEmpty ==
    [][ HandleUsersFound =>
          /\ Head(inbox).a = <<>> => selected_user' = Nothing
          /\ selected_user' # Nothing =>
                \E i \in 1..Len(users') : users'[i] = Get(selected_user') ]_vars

\* The user lists that the fetch task has sent and update has not yet
\* handled.
FetchReports ==
    { inbox[i].a : i \in { j \in 1..Len(inbox) : inbox[j].type = "UsersFound" } }

\* The accounts of a directory answer whose fetch worked.
Succeeded(dir) ==
    { i \in 1..Len(dir.paths) : dir.accounts = "ok" /\ dir.paths[i].fails = None }

\* C29: when the accounts service is missing, lists no account or no listed
\* account can be fetched, and the lookup of the invoking user works, the
\* list sent is that user alone; when an account was fetched the list has
\* the fetched accounts and nothing else.
C29_FallbackToOsUser ==
    \A us \in FetchReports :
        /\ (Succeeded(boot.dir) = {} /\ boot.dir.os = "some") => us = << OsUser >>
        /\ (Succeeded(boot.dir) = {} /\ boot.dir.os # "some") => us = <<>>
        /\ Succeeded(boot.dir) # {} =>
              /\ Len(us) = Cardinality(Succeeded(boot.dir))
              /\ \A i \in 1..Len(us) : us[i] # OsUser

\* Two accounts are listed, neither can be fetched, and the list sent is the
\* invoking user.
C29_Witness ==
    /\ boot.dir.accounts = "ok" /\ Len(boot.dir.paths) = 2
    /\ Succeeded(boot.dir) = {}
    /\ boot.dir.os = "some"
    /\ << OsUser >> \in FetchReports

\* list_cached_users fails and the list sent is the invoking user.
C29_WitnessNoAccounts ==
    /\ boot.dir.accounts = "list-error"
    /\ << OsUser >> \in FetchReports

\* How many entries of the list `us` are the user `u`.
Entries(us, u) == Cardinality({ i \in 1..Len(us) : us[i] = u })

\* C30: an account whose fetch fails at any step is left out and the listing
\* goes on: the list sent has one entry for each listed account whose fetch
\* worked, and none for another account.
C30_FailedFetchDropped ==
    \A us \in FetchReports :
        /\ Succeeded(boot.dir) # {} =>
              \A p \in AccountPaths :
                 Entries(us, p.user) =
                    Cardinality({ i \in Succeeded(boot.dir) :
                                    boot.dir.paths[i].user = p.user })
        /\ Succeeded(boot.dir) = {} =>
              \A p \in AccountPaths : Entries(us, p.user) = 0

\* The first listed account fails at its user name, the second is fetched,
\* and the list sent is the second account alone.
C30_Witness ==
    /\ boot.dir.accounts = "ok" /\ Len(boot.dir.paths) = 2
    /\ boot.dir.paths[1].fails = "user_name"
    /\ boot.dir.paths[2] = [user |-> UserOption("alice", "Alice A."), fails |-> None]
    /\ << UserOption("alice", "Alice A.") >> \in FetchReports


\* C31: while the users are listed at most USER_FETCH_CONCURRENCY fetches
\* are in flight, however many accounts are listed, and once the listing has
\* its paths every one of them is fetched in the end.
C31_BoundedFanOut ==
    /\ [](Cardinality(InFlight(boot.run)) <= USER_FETCH_CONCURRENCY)
    /\ [](boot.run.on => <>(boot.run.yielded = Len(boot.dir.paths)))

\* More accounts are listed than the buffer takes, the buffer is full of
\* fetches in flight and accounts are waiting.
C31_Witness ==
    /\ boot.run.on
    /\ Len(boot.dir.paths) > USER_FETCH_CONCURRENCY
    /\ Cardinality(InFlight(boot.run)) = USER_FETCH_CONCURRENCY
    /\ boot.run.started < Len(boot.dir.paths)


\* The identifiers of the ten fingers, as the device knows them.
TenFingers ==
    { "right-thumb", "right-index-finger", "right-middle-finger",
      "right-ring-finger", "right-little-finger", "left-thumb",
      "left-index-finger", "left-middle-finger", "left-ring-finger",
      "left-little-finger" }

\* C32: the catalog has eleven pages in a fixed order, ten fingers and then
\* the page of all fingers; the ten fingers have ten different identifiers
\* and the page of all fingers, and no other page, has none.  So the
\* active page is one of the eleven, an enrollment and a delete of one
\* finger carry one of the ten identifiers, and a delete carries none
\* exactly when it was asked on the page of all fingers.
C32_FingerCatalog ==
    /\ Len(PageAll) = 11
    /\ PageAll[11] = "DeleteAllUsersPrints"
    /\ \A i, j \in 1..Len(PageAll) : i # j => PageAll[i] # PageAll[j]
    /\ \A i \in 1..10 : as_finger_id(PageAll[i]) \in TenFingers
    /\ \A i, j \in 1..10 :
          i # j => as_finger_id(PageAll[i]) # as_finger_id(PageAll[j])
    /\ \A i \in 1..Len(PageAll) : as_finger_id(PageAll[i]) = None <=> i = 11
    /\ \E i \in 1..Len(PageAll) : active = PageAll[i]
    /\ enrolling_finger # None => enrolling_finger \in TenFingers
    /\ \A s \in Sessions : enr[s].pc # "none" => enr[s].finger \in TenFingers
    /\ \A k \in 1..MaxDeletes :
          del[k].pc \notin { "none", "gone" } =>
             /\ del[k].kind = "one" => del[k].finger \in TenFingers
             /\ del[k].kind = "all" <=> del[k].finger = None

\* The tenth finger's page is active and an enrollment of its identifier has
\* been started.
C32_Witness ==
    /\ active = "LeftPinky"
    /\ enrolling_finger = "left-little-finger"
    /\ \E s \in Sessions : enr[s].pc # "none" /\ enr[s].finger = "left-little-finger"

\* A delete has been asked on the page of all fingers and carries no
\* identifier.
C32_WitnessAll ==
    /\ active = "DeleteAllUsersPrints"
    /\ \E k \in 1..MaxDeletes : del[k].pc = "claim" /\ del[k].kind = "all"


\* What a register request needs to start an enrollment.
CanRegister ==
    /\ active # None /\ as_finger_id(active) \in TenFingers
    /\ device_path
    /\ selected_user # Nothing

\* C33: a step starts an enrollment session only when the active page is
\* one of the ten fingers, the device reference is present and a user is
\* selected, and the session is for the finger of that page; a register
\* request without one of the three leaves busy, enrolling_finger and status
\* as they were, makes no task and no call to the device.
C33_RegisterOnlyWhenReady ==
    [][ /\ Started(enr)' > Started(enr) =>
             /\ CanRegister
             /\ enrolling_finger' = as_finger_id(active)
             /\ busy'
        /\ (PressRegister /\ ~CanRegister) =>
             UNCHANGED << busy, enrolling_finger, status, enr, cnl, del, clr,
                          claimed, dev_enrolling >> ]_vars

\* A register request on a finger page with the device and a user has
\* started the session of that finger, which has not yet called the device.
C33_Witness ==
    /\ device_path /\ selected_user # Nothing
    /\ active = "RightIndex"
    /\ busy /\ enrolling_finger = "right-index-finger"
    /\ \E s \in Sessions : enr[s].pc = "claim" /\ enr[s].calls = <<>>


\* The enrollment task of a session that is neither unused nor dropped has
\* already issued its release.
TaskReleased == \E s \in Sessions :
    /\ enr[s].pc \notin { "none", "dropped" }
    /\ Count(enr[s].calls, "release") > 0

\* C34: a cancel request makes its task, which issues enroll_stop and
\* release, only while an enrollment is live: enrolling_finger is present
\* and the session's own task has not yet released the device.
C34_CancelOnlyWhileLive ==
    [][ Started(cnl)' > Started(cnl) =>
          /\ enrolling_finger # None
          /\ ~TaskReleased ]_vars


\* C35: whenever an enrollment is live (enrolling_finger is present) busy is
\* true: no event of another task turns busy off under a live session.
C35_LiveSessionIsBusy == enrolling_finger # None => busy


\* A delete has been requested and its completion or error is not yet
\* handled.
DeletePending == \E k \in 1..MaxDeletes : del[k].pc \notin { "none", "gone" }

\* C36: when the completion of a delete is handled, the finger taken out of
\* enrolled_fingers is the finger the delete was requested for, and the
\* whole list goes for a delete of all fingers; from the request to the
\* handling of its completion the active page does not change.
C36_DeleteRemovesRequested ==
    [][ /\ HandleDeleteComplete =>
             LET d == del[Head(inbox).sess]
             IN  enrolled_fingers' =
                    IF d.kind = "one" THEN Retain(enrolled_fingers, d.finger)
                    ELSE <<>>
        /\ DeletePending => active' = active ]_vars


\* C37: the enrolled-finger list is the list of the selected user: it is
\* empty (not yet listed) or it is what the device holds for the user who
\* is selected now.
C37_ListOfSelectedUser ==
    selected_user # Nothing =>
        enrolled_fingers \in { <<>>, DevicePrints(Get(selected_user).username) }


\* C38: the batch over all users is started only by a second clear request
\* that follows the first with no page selection and no user selection
\* handled in between, and starting it resets the confirmation; the first
\* clear request sets the confirmation and makes no task and no call.
C38_ClearNeedsTwoRequests ==
    [][ /\ Started(clr)' > Started(clr) =>
             /\ confirm_clear /\ ~confirm_clear'
             /\ ~reselected
        /\ (ClearDevice /\ ~confirm_clear) =>
             /\ confirm_clear'
             /\ UNCHANGED << busy, clr, claimed >> ]_vars


\* C39: a page selection and a user selection handled while busy change
\* neither the active page, nor the selected user, nor the enrolled-finger
\* list, nor the clear confirmation, and start no finger listing.
C39_SelectionIgnoredWhileBusy ==
    [][ (busy /\ (NavSelect \/ UserSelected)) =>
            UNCHANGED << active, selected_user, enrolled_fingers, confirm_clear,
                         listing >> ]_vars

\* A selection was handled while a delete kept the orchestrator busy and
\* the confirmation of the clear was set.
C39_Witness ==
    /\ busy /\ reselected /\ confirm_clear
    /\ \E k \in 1..MaxDeletes : del[k].pc \notin { "none", "gone" }


\* C40: delete_fingerprint_dbus returns Ok exactly when the claim, the delete
\* and the release were all answered Ok; when the delete was answered Ok and
\* the release failed it returns the release's error, the orchestrator is
\* sent OperationError and not DeleteComplete, and handling that message
\* leaves the enrolled-finger list as it was.
C40_DeleteOkNeedsAllThree ==
    /\ [](\A k \in 1..MaxDeletes :
            (del[k].kind = "one" /\ del[k].pc = "done") =>
              LET c == del[k].calls IN
              /\ IsOk(del[k].ret) <=>
                   (Len(c) = 3 /\ \A i \in 1..3 : IsOk(c[i].reply))
              /\ (Len(c) = 3 /\ IsOk(c[2].reply) /\ IsErr(c[3].reply)) =>
                   /\ del[k].ret = c[3].reply
                   /\ \E i \in 1..Len(inbox) :
                        /\ inbox[i].type = "OperationError"
                        /\ inbox[i].src = "delete" /\ inbox[i].sess = k
                        /\ inbox[i].a = FromZbus(c[3].reply.err)
                   /\ \A i \in 1..Len(inbox) :
                        ~(/\ inbox[i].type = "DeleteComplete"
                          /\ inbox[i].src = "delete" /\ inbox[i].sess = k))
    /\ [][ (HandleOperationError /\ Head(inbox).src = "delete") =>
              UNCHANGED enrolled_fingers ]_vars

\* C40's case: the claim and the delete succeeded, the release failed, and
\* the function has returned.
C40_Witness ==
    \E k \in 1..MaxDeletes :
      /\ del[k].kind = "one" /\ del[k].pc = "done"
      /\ Len(del[k].calls) = 3
      /\ IsOk(del[k].calls[1].reply) /\ IsOk(del[k].calls[2].reply)
      /\ IsErr(del[k].calls[3].reply)
      /\ enrolled_fingers # <<>>

====
